---- MODULE Spec2Model ----
(***************************************************************************)
(* The recipe analysis core: CalorieEstimator, DifficultyAnalyzer,         *)
(* TimePredictor, the diet detection of SuggestionGenerator, the handler   *)
(* of the time analysis, and the text primitives they rest on.  A Python   *)
(* str is a sequence of one-character strings; a Python float is the      *)
(* exact rational <<numerator, denominator>> (the denominator a power of   *)
(* ten for decimal text, sixty for seconds turned into minutes), so binary *)
(* representation error is not modelled.                                   *)
(***************************************************************************)
EXTENDS Integers, Sequences, FiniteSets, TLC

VARIABLES req, pc, result, prev, hashSeed, locals, args, tables

vars == <<req, pc, result, prev, hashSeed, locals, args, tables>>

(***************************************************************************)
(* Text primitives: str.lower, str.strip, the `in` substring test, and the *)
(* character classes of the regular expressions.                           *)
(***************************************************************************)
Whitespace == {" ", "\t", "\n"}

DIGITS == <<"0","1","2","3","4","5","6","7","8","9">>

Digits == {DIGITS[i] : i \in 1..Len(DIGITS)}

UPPER == <<"A","B","C","D","E","F","G","H","I","J","K","L","M",
           "N","O","P","Q","R","S","T","U","V","W","X","Y","Z">>

LOWER == <<"a","b","c","d","e","f","g","h","i","j","k","l","m",
           "n","o","p","q","r","s","t","u","v","w","x","y","z">>

LowerLetters == {LOWER[i] : i \in 1..Len(LOWER)}

SetMin(S) == CHOOSE x \in S : \A y \in S : x <= y

SetMax(S) == CHOOSE x \in S : \A y \in S : x >= y

LowerChar(c) ==
    IF \E i \in 1..Len(UPPER) : UPPER[i] = c
    THEN LOWER[CHOOSE i \in 1..Len(UPPER) : UPPER[i] = c]
    ELSE c

RECURSIVE Lower(_)
Lower(s) == IF s = <<>> THEN <<>> ELSE <<LowerChar(Head(s))>> \o Lower(Tail(s))

Strip(s) ==
    LET kept == {i \in 1..Len(s) : s[i] \notin Whitespace}
    IN  IF kept = {} THEN <<>> ELSE SubSeq(s, SetMin(kept), SetMax(kept))

\* Python `k in s` for strings: the empty string is in every string.
IsSubstring(k, s) ==
    \E i \in 0..(Len(s) - Len(k)) : \A j \in 1..Len(k) : s[i + j] = k[j]

AllIn(s, from, to, class) == \A i \in from..to : s[i] \in class

(***************************************************************************)
(* Numbers.  float(text) of a \d+\.?\d* token is <<n, d>> = n / d.         *)
(* round(x) and round(x, 1) round half to even, as Python does on the      *)
(* value it holds; a one-decimal value is kept as its number of tenths.    *)
(***************************************************************************)
DigitValue(c) == (CHOOSE i \in 1..Len(DIGITS) : DIGITS[i] = c) - 1

RECURSIVE ParseInt(_)
ParseInt(s) ==
    IF s = <<>> THEN 0
    ELSE 10 * ParseInt(SubSeq(s, 1, Len(s) - 1)) + DigitValue(s[Len(s)])

RECURSIVE Pow10(_)
Pow10(k) == IF k = 0 THEN 1 ELSE 10 * Pow10(k - 1)

Float(token) ==
    LET dots == {i \in 1..Len(token) : token[i] = "."}
    IN  IF dots = {} THEN <<ParseInt(token), 1>>
        ELSE LET p == SetMin(dots)
                 whole == SubSeq(token, 1, p - 1)
                 frac  == SubSeq(token, p + 1, Len(token))
             IN  <<ParseInt(whole \o frac), Pow10(Len(frac))>>

RatAdd(x, y) ==
    IF x[2] >= y[2]
    THEN <<x[1] + y[1] * (x[2] \div y[2]), x[2]>>
    ELSE <<x[1] * (y[2] \div x[2]) + y[1], y[2]>>

RatEq(x, y) == x[1] * y[2] = y[1] * x[2]

Round(x) ==
    LET q == x[1] \div x[2]
        r == x[1] % x[2]
    IN  IF 2 * r < x[2] THEN q
        ELSE IF 2 * r > x[2] THEN q + 1
        ELSE IF q % 2 = 0 THEN q ELSE q + 1

Round1(x) == Round(<<10 * x[1], x[2]>>)


(***************************************************************************)
(* CalorieEstimator                                                        *)
(***************************************************************************)
CALORIE_DATABASE ==
    <<
       <<<<"c","h","i","c","k","e","n">>, 165>>, <<<<"c","h","i","c","k","e","n"," ","b","r","e","a","s","t">>, 165>>,
       <<<<"c","h","i","c","k","e","n"," ","t","h","i","g","h">>, 209>>, <<<<"b","e","e","f">>, 250>>,
       <<<<"g","r","o","u","n","d"," ","b","e","e","f">>, 250>>, <<<<"s","t","e","a","k">>, 271>>,
       <<<<"p","o","r","k">>, 242>>, <<<<"b","a","c","o","n">>, 541>>,
       <<<<"h","a","m">>, 145>>, <<<<"f","i","s","h">>, 206>>,
       <<<<"s","a","l","m","o","n">>, 208>>, <<<<"t","u","n","a">>, 132>>,
       <<<<"s","h","r","i","m","p">>, 99>>, <<<<"e","g","g">>, 155>>,
       <<<<"e","g","g","s">>, 155>>, <<<<"t","o","f","u">>, 76>>,
       <<<<"m","i","l","k">>, 42>>, <<<<"c","r","e","a","m">>, 340>>,
       <<<<"h","e","a","v","y"," ","c","r","e","a","m">>, 340>>, <<<<"c","h","e","e","s","e">>, 402>>,
       <<<<"c","h","e","d","d","a","r">>, 403>>, <<<<"m","o","z","z","a","r","e","l","l","a">>, 280>>,
       <<<<"p","a","r","m","e","s","a","n">>, 431>>, <<<<"b","u","t","t","e","r">>, 717>>,
       <<<<"y","o","g","u","r","t">>, 59>>, <<<<"g","r","e","e","k"," ","y","o","g","u","r","t">>, 59>>,
       <<<<"r","i","c","e">>, 130>>, <<<<"w","h","i","t","e"," ","r","i","c","e">>, 130>>,
       <<<<"b","r","o","w","n"," ","r","i","c","e">>, 111>>, <<<<"p","a","s","t","a">>, 131>>,
       <<<<"s","p","a","g","h","e","t","t","i">>, 131>>, <<<<"n","o","o","d","l","e","s">>, 138>>,
       <<<<"b","r","e","a","d">>, 265>>, <<<<"f","l","o","u","r">>, 364>>,
       <<<<"w","h","e","a","t"," ","f","l","o","u","r">>, 364>>, <<<<"o","a","t","s">>, 389>>,
       <<<<"q","u","i","n","o","a">>, 120>>, <<<<"c","o","u","s","c","o","u","s">>, 112>>,
       <<<<"p","o","t","a","t","o">>, 77>>, <<<<"p","o","t","a","t","o","e","s">>, 77>>,
       <<<<"s","w","e","e","t"," ","p","o","t","a","t","o">>, 86>>, <<<<"t","o","m","a","t","o">>, 18>>,
       <<<<"t","o","m","a","t","o","e","s">>, 18>>, <<<<"o","n","i","o","n">>, 40>>,
       <<<<"o","n","i","o","n","s">>, 40>>, <<<<"g","a","r","l","i","c">>, 149>>,
       <<<<"c","a","r","r","o","t">>, 41>>, <<<<"c","a","r","r","o","t","s">>, 41>>,
       <<<<"b","r","o","c","c","o","l","i">>, 34>>, <<<<"s","p","i","n","a","c","h">>, 23>>,
       <<<<"l","e","t","t","u","c","e">>, 15>>, <<<<"b","e","l","l"," ","p","e","p","p","e","r">>, 31>>,
       <<<<"m","u","s","h","r","o","o","m">>, 22>>, <<<<"m","u","s","h","r","o","o","m","s">>, 22>>,
       <<<<"c","u","c","u","m","b","e","r">>, 15>>, <<<<"z","u","c","c","h","i","n","i">>, 17>>,
       <<<<"e","g","g","p","l","a","n","t">>, 25>>, <<<<"c","a","u","l","i","f","l","o","w","e","r">>, 25>>,
       <<<<"c","a","b","b","a","g","e">>, 25>>, <<<<"k","a","l","e">>, 49>>,
       <<<<"a","p","p","l","e">>, 52>>, <<<<"b","a","n","a","n","a">>, 89>>,
       <<<<"o","r","a","n","g","e">>, 47>>, <<<<"s","t","r","a","w","b","e","r","r","y">>, 32>>,
       <<<<"b","l","u","e","b","e","r","r","y">>, 57>>, <<<<"m","a","n","g","o">>, 60>>,
       <<<<"a","v","o","c","a","d","o">>, 160>>, <<<<"l","e","m","o","n">>, 29>>,
       <<<<"l","i","m","e">>, 30>>, <<<<"o","i","l">>, 884>>,
       <<<<"o","l","i","v","e"," ","o","i","l">>, 884>>, <<<<"v","e","g","e","t","a","b","l","e"," ","o","i","l">>, 884>>,
       <<<<"c","o","c","o","n","u","t"," ","o","i","l">>, 862>>, <<<<"g","h","e","e">>, 900>>,
       <<<<"a","l","m","o","n","d">>, 579>>, <<<<"a","l","m","o","n","d","s">>, 579>>,
       <<<<"p","e","a","n","u","t">>, 567>>, <<<<"c","a","s","h","e","w">>, 553>>,
       <<<<"w","a","l","n","u","t">>, 654>>, <<<<"s","e","s","a","m","e">>, 573>>,
       <<<<"s","a","l","t">>, 0>>, <<<<"p","e","p","p","e","r">>, 251>>,
       <<<<"s","u","g","a","r">>, 387>>, <<<<"h","o","n","e","y">>, 304>>,
       <<<<"s","o","y"," ","s","a","u","c","e">>, 53>>, <<<<"v","i","n","e","g","a","r">>, 18>>,
       <<<<"k","e","t","c","h","u","p">>, 112>>, <<<<"m","a","y","o","n","n","a","i","s","e">>, 680>>,
       <<<<"m","u","s","t","a","r","d">>, 66>>, <<<<"b","e","a","n","s">>, 127>>,
       <<<<"b","l","a","c","k"," ","b","e","a","n","s">>, 132>>, <<<<"k","i","d","n","e","y"," ","b","e","a","n","s">>, 127>>,
       <<<<"l","e","n","t","i","l","s">>, 116>>, <<<<"c","h","i","c","k","p","e","a","s">>, 164>>,
       <<<<"p","e","a","s">>, 81>>, <<<<"w","a","t","e","r">>, 0>>,
       <<<<"s","t","o","c","k">>, 10>>, <<<<"b","r","o","t","h">>, 10>>,
       <<<<"w","i","n","e">>, 85>>, <<<<"b","e","e","r">>, 43>>,
       <<<<"c","o","c","o","n","u","t"," ","m","i","l","k">>, 230>>
    >>

MEASUREMENT_CONVERSIONS ==
    <<
       <<<<"c","u","p">>, 240>>, <<<<"c","u","p","s">>, 240>>, <<<<"t","a","b","l","e","s","p","o","o","n">>, 15>>,
       <<<<"t","a","b","l","e","s","p","o","o","n","s">>, 15>>, <<<<"t","b","s","p">>, 15>>, <<<<"t","e","a","s","p","o","o","n">>, 5>>,
       <<<<"t","e","a","s","p","o","o","n","s">>, 5>>, <<<<"t","s","p">>, 5>>, <<<<"o","u","n","c","e">>, 28>>,
       <<<<"o","u","n","c","e","s">>, 28>>, <<<<"o","z">>, 28>>, <<<<"p","o","u","n","d">>, 454>>,
       <<<<"p","o","u","n","d","s">>, 454>>, <<<<"l","b">>, 454>>, <<<<"l","b","s">>, 454>>,
       <<<<"g","r","a","m">>, 1>>, <<<<"g","r","a","m","s">>, 1>>, <<<<"g">>, 1>>,
       <<<<"k","i","l","o","g","r","a","m">>, 1000>>, <<<<"k","i","l","o","g","r","a","m","s">>, 1000>>, <<<<"k","g">>, 1000>>,
       <<<<"p","i","e","c","e">>, 100>>, <<<<"p","i","e","c","e","s">>, 100>>, <<<<"c","l","o","v","e">>, 3>>,
       <<<<"c","l","o","v","e","s">>, 3>>
    >>

\* A mutant: an unknown unit counts as one gram, whatever the default.
ConversionGetOneGram(measurement, default) ==
    LET hit == {i \in 1..Len(MEASUREMENT_CONVERSIONS) :
                    MEASUREMENT_CONVERSIONS[i][1] = measurement}
    IN  IF hit = {} THEN 1 ELSE MEASUREMENT_CONVERSIONS[SetMin(hit)][2]

\* dict.get(key, default) on MEASUREMENT_CONVERSIONS
ConversionGet(measurement, default) ==
    LET hit == {i \in 1..Len(MEASUREMENT_CONVERSIONS) :
                    MEASUREMENT_CONVERSIONS[i][1] = measurement}
    IN  IF hit = {} THEN default ELSE MEASUREMENT_CONVERSIONS[SetMin(hit)][2]

IsUnit(token) ==
    \E i \in 1..Len(MEASUREMENT_CONVERSIONS) : MEASUREMENT_CONVERSIONS[i][1] = token

\* The text t is a \d+\.?\d* token.
IsNumberToken(t) ==
    /\ Len(t) >= 1
    /\ t[1] \in Digits
    /\ \A i \in 1..Len(t) : t[i] \in Digits \cup {"."}
    /\ Cardinality({i \in 1..Len(t) : t[i] = "."}) <= 1

LexGE(t, u) ==
    \/ t = u
    \/ \E k \in 1..4 : t[k] > u[k] /\ \A j \in 1..(k - 1) : t[j] = u[j]

\* re.match(r'(\d+\.?\d*)\s*([a-z]+)?\s+(.+)', line).  A way to match is the
\* ends <<e1, e2, e3, e4>> of the number, of \s*, of the optional letters
\* and of \s+; (.+) then takes the rest of the physical line.  Every
\* quantifier is greedy, so backtracking returns the lexicographically
\* greatest way.  NoMatch when there is none.
NoMatch == [matched |-> FALSE]

\* A mutant: the whitespace before the name is optional (\s* for \s+).
QuantityMatchOptionalSpace(line) ==
    LET n == Len(line)
        E1 == {e \in 1..n : IsNumberToken(SubSeq(line, 1, e))}
        E2(e1) == {e \in e1..n : AllIn(line, e1 + 1, e, Whitespace)}
        E3(e2) == {e \in e2..n : AllIn(line, e2 + 1, e, LowerLetters)}
        E4(e3) == {e \in e3..(n - 1) :
                      AllIn(line, e3 + 1, e, Whitespace) /\ line[e + 1] # "\n"}
        ways == UNION {UNION {UNION {{<<e1, e2, e3, e4>> : e4 \in E4(e3)}
                                     : e3 \in E3(e2)} : e2 \in E2(e1)} : e1 \in E1}
    IN  IF ways = {} THEN NoMatch
        ELSE LET w == CHOOSE t \in ways : \A u \in ways : LexGE(t, u)
                 breaks == {i \in (w[4] + 1)..n : line[i] = "\n"}
                 last == IF breaks = {} THEN n ELSE SetMin(breaks) - 1
             IN  [matched |-> TRUE,
                  group1 |-> SubSeq(line, 1, w[1]),
                  group2 |-> SubSeq(line, w[2] + 1, w[3]),
                  group3 |-> SubSeq(line, w[4] + 1, last)]

QuantityMatch(line) ==
    LET n == Len(line)
        E1 == {e \in 1..n : IsNumberToken(SubSeq(line, 1, e))}
        E2(e1) == {e \in e1..n : AllIn(line, e1 + 1, e, Whitespace)}
        E3(e2) == {e \in e2..n : AllIn(line, e2 + 1, e, LowerLetters)}
        E4(e3) == {e \in (e3 + 1)..(n - 1) :
                      AllIn(line, e3 + 1, e, Whitespace) /\ line[e + 1] # "\n"}
        ways == UNION {UNION {UNION {{<<e1, e2, e3, e4>> : e4 \in E4(e3)}
                                     : e3 \in E3(e2)} : e2 \in E2(e1)} : e1 \in E1}
    IN  IF ways = {} THEN NoMatch
        ELSE LET w == CHOOSE t \in ways : \A u \in ways : LexGE(t, u)
                 breaks == {i \in (w[4] + 1)..n : line[i] = "\n"}
                 last == IF breaks = {} THEN n ELSE SetMin(breaks) - 1
             IN  [matched |-> TRUE,
                  group1 |-> SubSeq(line, 1, w[1]),
                  group2 |-> SubSeq(line, w[2] + 1, w[3]),
                  group3 |-> SubSeq(line, w[4] + 1, last)]

\* A mutant: a line without a quantity counts as one gram.
extract_quantity_OneGramDefault(ingredient_line) ==
    LET line == Strip(Lower(ingredient_line))
        match == QuantityMatch(line)
    IN  IF match.matched
        THEN LET quantity == Float(match.group1)
                 measurement == IF match.group2 # <<>> THEN match.group2
                                ELSE <<"g","r","a","m">>
                 ingredient == Strip(match.group3)
                 conversion_factor == ConversionGet(measurement, 100)
             IN  [grams |-> <<quantity[1] * conversion_factor, quantity[2]>>,
                  name |-> ingredient]
        ELSE [grams |-> <<1, 1>>, name |-> line]

\* A mutant: the quantity is returned as parsed, without the conversion.
extract_quantity_Unconverted(ingredient_line) ==
    LET line == Strip(Lower(ingredient_line))
        match == QuantityMatch(line)
    IN  IF match.matched
        THEN [grams |-> Float(match.group1), name |-> Strip(match.group3)]
        ELSE [grams |-> <<100, 1>>, name |-> line]

\* Returns [grams, name]; grams is the rational <<n, d>>.
extract_quantity(ingredient_line) ==
    LET line == Strip(Lower(ingredient_line))
        match == QuantityMatch(line)
    IN  IF match.matched
        THEN LET quantity == Float(match.group1)
                 measurement == IF match.group2 # <<>> THEN match.group2
                                ELSE <<"g","r","a","m">>
                 ingredient == Strip(match.group3)
                 conversion_factor == ConversionGet(measurement, 100)
             IN  [grams |-> <<quantity[1] * conversion_factor, quantity[2]>>,
                  name |-> ingredient]
        ELSE [grams |-> <<100, 1>>, name |-> line]

\* A mutant: no fallback value, an unmatched name counts as 0.
RECURSIVE PartialMatchZero(_, _)
PartialMatchZero(ingredient_lower, i) ==
    IF i > Len(CALORIE_DATABASE) THEN 0
    ELSE IF \/ IsSubstring(CALORIE_DATABASE[i][1], ingredient_lower)
            \/ IsSubstring(ingredient_lower, CALORIE_DATABASE[i][1])
    THEN CALORIE_DATABASE[i][2]
    ELSE PartialMatchZero(ingredient_lower, i + 1)

\* The loop over CALORIE_DATABASE.items() from entry i on: the first key
\* that is in the name, or that the name is in, decides.
RECURSIVE PartialMatch(_, _)
PartialMatch(ingredient_lower, i) ==
    IF i > Len(CALORIE_DATABASE) THEN 150
    ELSE IF \/ IsSubstring(CALORIE_DATABASE[i][1], ingredient_lower)
            \/ IsSubstring(ingredient_lower, CALORIE_DATABASE[i][1])
    THEN CALORIE_DATABASE[i][2]
    ELSE PartialMatch(ingredient_lower, i + 1)

\* A mutant: the partial match is tried first.
find_ingredient_match_PartialFirst(ingredient_name) ==
    PartialMatch(Lower(ingredient_name), 1)

find_ingredient_match(ingredient_name) ==
    LET ingredient_lower == Lower(ingredient_name)
        direct == {i \in 1..Len(CALORIE_DATABASE) :
                      CALORIE_DATABASE[i][1] = ingredient_lower}
    IN  IF direct # {} THEN CALORIE_DATABASE[SetMin(direct)][2]
        ELSE PartialMatch(ingredient_lower, 1)

\* A mutant: only the empty line counts as blank.
IsBlankLineUnstripped(ingredient) == ingredient = <<>>

\* `not ingredient.strip()`
IsBlankLine(ingredient) == Strip(ingredient) = <<>>

\* The loop of estimate_calories from line i on: the running total (exact)
\* and the breakdown so far go in, the final pair comes out.
RECURSIVE CalorieLoop(_, _, _, _)
CalorieLoop(ingredients_list, i, total_calories, breakdown) ==
    IF i > Len(ingredients_list)
    THEN [total_calories |-> total_calories, breakdown |-> breakdown]
    ELSE IF IsBlankLine(ingredients_list[i])
    THEN CalorieLoop(ingredients_list, i + 1, total_calories, breakdown)
    ELSE LET ingredient == ingredients_list[i]
             extracted == extract_quantity(ingredient)
             quantity_grams == extracted.grams
             calories_per_100g == find_ingredient_match(extracted.name)
             ingredient_calories ==
                 <<calories_per_100g * quantity_grams[1], 100 * quantity_grams[2]>>
         IN  CalorieLoop(ingredients_list, i + 1,
                         RatAdd(total_calories, ingredient_calories),
                         Append(breakdown,
                                [ingredient |-> Strip(ingredient),
                                 estimated_grams |-> Round1(quantity_grams),
                                 calories |-> Round1(ingredient_calories)]))

\* A mutant: the total is cut to an integer, not rounded.
estimate_calories_Truncating(ingredients_list) ==
    LET done == CalorieLoop(ingredients_list, 1, <<0, 1>>, <<>>)
    IN  [total_calories |-> done.total_calories[1] \div done.total_calories[2],
         breakdown |-> done.breakdown,
         servings_estimate |-> SetMax({1, Len(ingredients_list) \div 3})]

\* A mutant: the servings follow the number of entries, not of input lines.
estimate_calories_ServingsOfEntries(ingredients_list) ==
    LET done == CalorieLoop(ingredients_list, 1, <<0, 1>>, <<>>)
    IN  [total_calories |-> Round(done.total_calories),
         breakdown |-> done.breakdown,
         servings_estimate |-> SetMax({1, Len(done.breakdown) \div 3})]

estimate_calories(ingredients_list) ==
    LET done == CalorieLoop(ingredients_list, 1, <<0, 1>>, <<>>)
    IN  [total_calories |-> Round(done.total_calories),
         breakdown |-> done.breakdown,
         servings_estimate |-> SetMax({1, Len(ingredients_list) \div 3})]

(***************************************************************************)
(* The order in which Python iterates a set of strings.  It follows the    *)
(* strings' hashes, which are salted per process, so it is fixed within    *)
(* one process and differs between processes: hashSeed is the salt, and    *)
(* HashSlot the place a string takes under it.                             *)
(***************************************************************************)
COMPLEX_TECHNIQUES ==
    <<
       <<"f","o","l","d">>, <<"t","e","m","p","e","r">>, <<"c","a","r","a","m","e","l","i","z","e">>,
       <<"j","u","l","i","e","n","n","e">>, <<"d","e","g","l","a","z","e">>, <<"b","r","a","i","s","e">>,
       <<"s","o","u","s"," ","v","i","d","e">>, <<"e","m","u","l","s","i","f","y">>, <<"f","l","a","m","b","e">>,
       <<"r","e","d","u","c","e">>, <<"b","l","a","n","c","h">>, <<"p","o","a","c","h">>,
       <<"s","e","a","r">>, <<"s","a","u","t","e_acute">>, <<"r","o","a","s","t">>,
       <<"b","r","a","i","s","e">>, <<"c","o","n","f","i","t">>, <<"m","a","r","i","n","a","t","e"," ","o","v","e","r","n","i","g","h","t">>,
       <<"k","n","e","a","d">>, <<"p","r","o","o","f">>, <<"f","e","r","m","e","n","t">>,
       <<"c","l","a","r","i","f","y">>, <<"s","t","r","a","i","n">>, <<"r","e","s","t"," ","d","o","u","g","h">>
    >>

MODERATE_TECHNIQUES ==
    <<
       <<"s","i","m","m","e","r">>, <<"w","h","i","s","k">>, <<"b","r","o","w","n">>,
       <<"s","e","a","s","o","n">>, <<"c","o","a","t">>, <<"t","o","s","s">>,
       <<"m","a","r","i","n","a","t","e">>, <<"c","h","i","l","l">>, <<"g","r","i","l","l">>,
       <<"b","a","k","e">>, <<"s","t","e","a","m">>, <<"d","r","a","i","n">>
    >>

SPICE_SUGGESTIONS ==
    <<
       <<<<"c","h","i","c","k","e","n">>,
         <<<<"p","a","p","r","i","k","a">>, <<"t","h","y","m","e">>, <<"r","o","s","e","m","a","r","y">>, <<"g","a","r","l","i","c"," ","p","o","w","d","e","r">>>>>>,
       <<<<"b","e","e","f">>,
         <<<<"b","l","a","c","k"," ","p","e","p","p","e","r">>, <<"g","a","r","l","i","c">>, <<"r","o","s","e","m","a","r","y">>, <<"o","r","e","g","a","n","o">>>>>>,
       <<<<"f","i","s","h">>,
         <<<<"l","e","m","o","n">>, <<"d","i","l","l">>, <<"p","a","r","s","l","e","y">>, <<"c","a","p","e","r">>>>>>,
       <<<<"p","a","s","t","a">>,
         <<<<"b","a","s","i","l">>, <<"o","r","e","g","a","n","o">>, <<"g","a","r","l","i","c">>, <<"p","a","r","m","e","s","a","n">>>>>>,
       <<<<"r","i","c","e">>,
         <<<<"c","u","m","i","n">>, <<"t","u","r","m","e","r","i","c">>, <<"b","a","y"," ","l","e","a","f">>, <<"c","a","r","d","a","m","o","m">>>>>>,
       <<<<"v","e","g","e","t","a","b","l","e","s">>,
         <<<<"g","a","r","l","i","c">>, <<"o","n","i","o","n">>, <<"h","e","r","b","s">>, <<"c","h","i","l","i"," ","f","l","a","k","e","s">>>>>>,
       <<<<"s","o","u","p">>,
         <<<<"b","a","y"," ","l","e","a","f">>, <<"t","h","y","m","e">>, <<"b","l","a","c","k"," ","p","e","p","p","e","r">>, <<"p","a","r","s","l","e","y">>>>>>
    >>

\* The default suggestions of suggest_spices, a list.
DefaultSpices ==
    <<<<"s","a","l","t">>, <<"b","l","a","c","k"," ","p","e","p","p","e","r">>, <<"g","a","r","l","i","c">>, <<"h","e","r","b","s">>>>

\* All spices of the rows, one list after the other.
RECURSIVE SpicesOf(_)
SpicesOf(rows) ==
    IF rows = <<>> THEN <<>> ELSE Head(rows)[2] \o SpicesOf(Tail(rows))

HashedStrings ==
    COMPLEX_TECHNIQUES \o MODERATE_TECHNIQUES \o SpicesOf(SPICE_SUGGESTIONS)

HashSlot(x, seed) ==
    LET p == SetMin({i \in 1..Len(HashedStrings) : HashedStrings[i] = x})
    IN  (p * (37 - 36 * seed) + seed) % 101

RECURSIVE SlotOrder(_, _)
SlotOrder(S, seed) ==
    IF S = {} THEN <<>>
    ELSE LET first == CHOOSE x \in S :
                          \A y \in S : HashSlot(x, seed) <= HashSlot(y, seed)
         IN  <<first>> \o SlotOrder(S \ {first}, seed)

\* list(set(items))
ListOfSet(items) == SlotOrder({items[i] : i \in 1..Len(items)}, hashSeed)

(***************************************************************************)
(* DifficultyAnalyzer                                                      *)
(***************************************************************************)
\* text.split('\n')
RECURSIVE SplitLines(_)
SplitLines(text) ==
    LET breaks == {i \in 1..Len(text) : text[i] = "\n"}
    IN  IF breaks = {} THEN <<text>>
        ELSE <<SubSeq(text, 1, SetMin(breaks) - 1)>>
             \o SplitLines(SubSeq(text, SetMin(breaks) + 1, Len(text)))

\* len(re.findall(r'\d+[\.\)]\s+', text)): matches do not overlap, and each
\* holds exactly one '.' or ')' that has a digit before it and whitespace
\* after it; every such place is matched.
NumberedMarkers(text) ==
    {i \in 2..(Len(text) - 1) :
        /\ text[i] \in {".", ")"}
        /\ text[i - 1] \in Digits
        /\ text[i + 1] \in Whitespace}

\* A mutant: the numbered markers are left out.
count_steps_LinesOnly(steps_text) ==
    IF steps_text = <<>> THEN 0
    ELSE LET split == SplitLines(steps_text)
         IN  Cardinality({i \in 1..Len(split) : Strip(split[i]) # <<>>})

\* A mutant: every line of the split counts, the empty text's one line too.
count_steps_AllLines(steps_text) ==
    SetMax({Len(SplitLines(steps_text)), Cardinality(NumberedMarkers(steps_text))})

count_steps(steps_text) ==
    IF steps_text = <<>> THEN 0
    ELSE LET split == SplitLines(steps_text)
             lines == {i \in 1..Len(split) : Strip(split[i]) # <<>>}
             numbered_steps == NumberedMarkers(steps_text)
         IN  SetMax({Cardinality(lines), Cardinality(numbered_steps)})

\* The techniques of `table` found in steps_lower, in table order, one entry
\* per table entry (a keyword listed twice is found twice).
TechniquesIn(table, steps_lower) ==
    SelectSeq(table, LAMBDA technique : IsSubstring(technique, steps_lower))

analyze_complexity(steps_text) ==
    IF steps_text = <<>> THEN [complexity_score |-> 0, techniques_found |-> <<>>]
    ELSE LET steps_lower == Lower(steps_text)
             complex == TechniquesIn(COMPLEX_TECHNIQUES, steps_lower)
             moderate == TechniquesIn(MODERATE_TECHNIQUES, steps_lower)
         IN  [complexity_score |-> 3 * Len(complex) + Len(moderate),
              techniques_found |-> ListOfSet(complex \o moderate)]

IngredientScore(ingredient_count) ==
    IF ingredient_count <= 5 THEN 1
    ELSE IF ingredient_count <= 10 THEN 2
    ELSE 3

\* A mutant: the thresholds are exclusive.
StepScoreExclusive(step_count) ==
    IF step_count < 3 THEN 1
    ELSE IF step_count < 6 THEN 2
    ELSE 3

StepScore(step_count) ==
    IF step_count <= 3 THEN 1
    ELSE IF step_count <= 6 THEN 2
    ELSE 3

\* A mutant: the technique score is normalised to 1..3.
TechniqueScoreAtLeastOne(complexity_score) ==
    SetMax({1, SetMin({3, complexity_score \div 2})})

TechniqueScore(complexity_score) == SetMin({3, complexity_score \div 2})

DifficultyLevel(total_score) ==
    IF total_score <= 4 THEN "Beginner"
    ELSE IF total_score <= 7 THEN "Intermediate"
    ELSE "Advanced"

DifficultyDescription(total_score) ==
    IF total_score <= 4 THEN "Simple recipe perfect for cooking beginners"
    ELSE IF total_score <= 7
    THEN "Moderate difficulty, some cooking experience helpful"
    ELSE "Complex recipe requiring culinary skills and patience"

\* A mutant: every line is counted as an ingredient, blank or not.
analyze_difficulty_CountingAllLines(ingredients_list, steps_text) ==
    LET ingredient_count ==
            Len(ingredients_list)
        ingredient_score == IngredientScore(ingredient_count)
        step_count == count_steps(steps_text)
        step_score == StepScore(step_count)
        complexity == analyze_complexity(steps_text)
        techniques == complexity.techniques_found
        technique_score == TechniqueScore(complexity.complexity_score)
        total_score == ingredient_score + step_score + technique_score
        factors == <<<<ingredient_count, "ingredients">>, <<step_count, "steps">>>>
                   \o (IF techniques # <<>>
                       THEN <<<<Len(techniques), "cooking technique(s)">>>>
                       ELSE <<>>)
    IN  [difficulty |-> DifficultyLevel(total_score),
         score |-> total_score,
         description |-> DifficultyDescription(total_score),
         factors |-> factors,
         techniques_found |-> SubSeq(techniques, 1, SetMin({5, Len(techniques)})),
         ingredient_count |-> ingredient_count,
         step_count |-> step_count]

analyze_difficulty(ingredients_list, steps_text) ==
    LET ingredient_count ==
            Cardinality({i \in 1..Len(ingredients_list) :
                            Strip(ingredients_list[i]) # <<>>})
        ingredient_score == IngredientScore(ingredient_count)
        step_count == count_steps(steps_text)
        step_score == StepScore(step_count)
        complexity == analyze_complexity(steps_text)
        techniques == complexity.techniques_found
        technique_score == TechniqueScore(complexity.complexity_score)
        total_score == ingredient_score + step_score + technique_score
        factors == <<<<ingredient_count, "ingredients">>, <<step_count, "steps">>>>
                   \o (IF techniques # <<>>
                       THEN <<<<Len(techniques), "cooking technique(s)">>>>
                       ELSE <<>>)
    IN  [difficulty |-> DifficultyLevel(total_score),
         score |-> total_score,
         description |-> DifficultyDescription(total_score),
         factors |-> factors,
         techniques_found |-> SubSeq(techniques, 1, SetMin({5, Len(techniques)})),
         ingredient_count |-> ingredient_count,
         step_count |-> step_count]

(***************************************************************************)
(* TimePredictor                                                           *)
(***************************************************************************)
COOKING_METHOD_TIME ==
    <<
       <<<<"b","a","k","e">>, 30>>,
       <<<<"b","a","k","i","n","g">>, 30>>,
       <<<<"r","o","a","s","t">>, 45>>,
       <<<<"r","o","a","s","t","i","n","g">>, 45>>,
       <<<<"b","r","a","i","s","e">>, 120>>,
       <<<<"b","r","a","i","s","i","n","g">>, 120>>,
       <<<<"s","i","m","m","e","r">>, 30>>,
       <<<<"s","i","m","m","e","r","i","n","g">>, 30>>,
       <<<<"b","o","i","l">>, 15>>,
       <<<<"b","o","i","l","i","n","g">>, 15>>,
       <<<<"f","r","y">>, 10>>,
       <<<<"f","r","y","i","n","g">>, 10>>,
       <<<<"s","a","u","t","e_acute">>, 10>>,
       <<<<"s","a","u","t","e_acute","i","n","g">>, 10>>,
       <<<<"g","r","i","l","l">>, 20>>,
       <<<<"g","r","i","l","l","i","n","g">>, 20>>,
       <<<<"s","t","e","a","m">>, 15>>,
       <<<<"s","t","e","a","m","i","n","g">>, 15>>,
       <<<<"m","a","r","i","n","a","t","e"," ","o","v","e","r","n","i","g","h","t">>, 480>>,
       <<<<"m","a","r","i","n","a","t","e">>, 30>>,
       <<<<"c","h","i","l","l">>, 60>>,
       <<<<"r","e","f","r","i","g","e","r","a","t","e">>, 60>>,
       <<<<"f","r","e","e","z","e">>, 120>>,
       <<<<"r","e","s","t">>, 10>>,
       <<<<"p","r","o","o","f">>, 60>>
    >>

\* The words of r'hours?', r'(?:minutes?|mins?)' and r'(?:seconds?|secs?)'
\* without their optional 's', in the order the alternatives are tried.
HourWords == <<<<"h","o","u","r">>>>

MinuteWords == <<<<"m","i","n","u","t","e">>, <<"m","i","n">>>>

SecondWords == <<<<"s","e","c","o","n","d">>, <<"s","e","c">>>>

StartsWithAt(s, i, w) ==
    /\ i + Len(w) - 1 <= Len(s)
    /\ \A j \in 1..Len(w) : s[i + j - 1] = w[j]

\* The last place of the run of `class` characters that starts at i (i - 1
\* when there is none).
SpanEnd(s, i, class) ==
    LET stops == {k \in i..Len(s) : s[k] \notin class}
    IN  IF stops = {} THEN Len(s) ELSE SetMin(stops) - 1

\* re.findall(r'(\d+)\s*(?:w1s?|w2s?)', text) from place i on: the digit
\* groups of the matches, found left to right without overlap.  \d+ and \s*
\* are greedy, and giving back a digit or a blank never lets a word match.
RECURSIVE FindAll(_, _, _)
FindAll(text, i, words) ==
    IF i > Len(text) THEN <<>>
    ELSE IF text[i] \notin Digits THEN FindAll(text, i + 1, words)
    ELSE LET d == SpanEnd(text, i, Digits)
             w == SpanEnd(text, d + 1, Whitespace)
             hits == {k \in 1..Len(words) : StartsWithAt(text, w + 1, words[k])}
         IN  IF hits = {} THEN FindAll(text, i + 1, words)
             ELSE LET e == w + Len(words[SetMin(hits)])
                      end == IF e < Len(text) /\ text[e + 1] = "s" THEN e + 1 ELSE e
                  IN  <<SubSeq(text, i, d)>> \o FindAll(text, end + 1, words)

RECURSIVE SumInts(_)
SumInts(matches) ==
    IF matches = <<>> THEN 0 ELSE ParseInt(Head(matches)) + SumInts(Tail(matches))

\* A mutant: every seconds mention is rounded to minutes by itself.
RECURSIVE SumRoundedSeconds(_)
SumRoundedSeconds(matches) ==
    IF matches = <<>> THEN 0
    ELSE Round(<<ParseInt(Head(matches)), 60>>) + SumRoundedSeconds(Tail(matches))

extract_explicit_time_RoundingEach(steps_text) ==
    IF steps_text = <<>> THEN 0
    ELSE LET steps_lower == Lower(steps_text)
         IN  60 * SumInts(FindAll(steps_lower, 1, HourWords))
             + SumInts(FindAll(steps_lower, 1, MinuteWords))
             + SumRoundedSeconds(FindAll(steps_lower, 1, SecondWords))

\* total_minutes is kept in sixtieths of a minute and rounded at the return.
extract_explicit_time(steps_text) ==
    IF steps_text = <<>> THEN 0
    ELSE LET steps_lower == Lower(steps_text)
             hour_matches == FindAll(steps_lower, 1, HourWords)
             minute_matches == FindAll(steps_lower, 1, MinuteWords)
             second_matches == FindAll(steps_lower, 1, SecondWords)
         IN  Round(<<60 * (60 * SumInts(hour_matches) + SumInts(minute_matches))
                       + SumInts(second_matches), 60>>)

RECURSIVE SumDurations(_)
SumDurations(rows) ==
    IF rows = <<>> THEN 0 ELSE Head(rows)[2] + SumDurations(Tail(rows))

\* A mutant: a key inside a longer matched key is not counted again.
estimate_from_methods_Exclusive(steps_text) ==
    IF steps_text = <<>> THEN [estimated_minutes |-> 0, methods_found |-> <<>>]
    ELSE LET steps_lower == Lower(steps_text)
             found == SelectSeq(COOKING_METHOD_TIME,
                         LAMBDA row :
                             /\ IsSubstring(row[1], steps_lower)
                             /\ ~\E j \in 1..Len(COOKING_METHOD_TIME) :
                                    /\ COOKING_METHOD_TIME[j][1] # row[1]
                                    /\ IsSubstring(COOKING_METHOD_TIME[j][1], steps_lower)
                                    /\ IsSubstring(row[1], COOKING_METHOD_TIME[j][1]))
         IN  [estimated_minutes |-> SumDurations(found),
              methods_found |-> [i \in 1..Len(found) |-> found[i][1]]]

estimate_from_methods(steps_text) ==
    IF steps_text = <<>> THEN [estimated_minutes |-> 0, methods_found |-> <<>>]
    ELSE LET steps_lower == Lower(steps_text)
             found == SelectSeq(COOKING_METHOD_TIME,
                                LAMBDA row : IsSubstring(row[1], steps_lower))
         IN  [estimated_minutes |-> SumDurations(found),
              methods_found |-> [i \in 1..Len(found) |-> found[i][1]]]

estimate_from_steps(step_count) == step_count * 5

\* str(n) of a non-negative integer, as f"{n}" writes it.
RECURSIVE Str(_)
Str(n) ==
    IF n < 10 THEN <<DIGITS[n + 1]>>
    ELSE Str(n \div 10) \o <<DIGITS[(n % 10) + 1]>>

TimeCategory(total_minutes) ==
    IF total_minutes <= 30 THEN "Quick"
    ELSE IF total_minutes <= 60 THEN "Medium"
    ELSE "Long"

\* The description, as the pieces the f-string puts together.
TimeDescription(total_minutes) ==
    IF total_minutes <= 30 THEN <<"Ready in 30 minutes or less">>
    ELSE IF total_minutes <= 60 THEN <<"Takes about 30-60 minutes">>
    ELSE <<"Takes over an hour (about ", Str(total_minutes \div 60), "h ",
           Str(total_minutes % 60), "m)">>

\* A mutant: the hour part is written when it is zero, too.
TimeDisplayWithZeroHours(total_minutes) ==
    Str(total_minutes \div 60) \o <<"h", " ">> \o Str(total_minutes % 60) \o <<"m">>

TimeDisplay(total_minutes) ==
    LET hours == total_minutes \div 60
        minutes == total_minutes % 60
    IN  IF hours > 0 THEN Str(hours) \o <<"h", " ">> \o Str(minutes) \o <<"m">>
        ELSE Str(minutes) \o <<"m">>

\* A mutant: the minimum is applied to the estimate only.
predict_time_ClampEstimateOnly(steps_text, step_count) ==
    LET explicit_time == extract_explicit_time(steps_text)
        methods == estimate_from_methods(steps_text)
        prep_time == estimate_from_steps(step_count)
        total_minutes == IF explicit_time > 0 THEN explicit_time
                         ELSE SetMax({10, prep_time + methods.estimated_minutes})
    IN  [category |-> TimeCategory(total_minutes),
         total_minutes |-> total_minutes,
         time_display |-> TimeDisplay(total_minutes),
         description |-> TimeDescription(total_minutes),
         explicit_time_found |-> explicit_time > 0,
         methods_detected |-> SubSeq(methods.methods_found, 1,
                                     SetMin({3, Len(methods.methods_found)}))]

\* A mutant: the estimate is added to the explicit time.
predict_time_AddingEstimate(steps_text, step_count) ==
    LET explicit_time == extract_explicit_time(steps_text)
        methods == estimate_from_methods(steps_text)
        prep_time == estimate_from_steps(step_count)
        total_minutes ==
            SetMax({10, explicit_time + prep_time + methods.estimated_minutes})
    IN  [category |-> TimeCategory(total_minutes),
         total_minutes |-> total_minutes,
         time_display |-> TimeDisplay(total_minutes),
         description |-> TimeDescription(total_minutes),
         explicit_time_found |-> explicit_time > 0,
         methods_detected |-> SubSeq(methods.methods_found, 1,
                                     SetMin({3, Len(methods.methods_found)}))]

predict_time(steps_text, step_count) ==
    LET explicit_time == extract_explicit_time(steps_text)
        methods == estimate_from_methods(steps_text)
        prep_time == estimate_from_steps(step_count)
        total_minutes == SetMax({10, IF explicit_time > 0 THEN explicit_time
                                     ELSE prep_time + methods.estimated_minutes})
    IN  [category |-> TimeCategory(total_minutes),
         total_minutes |-> total_minutes,
         time_display |-> TimeDisplay(total_minutes),
         description |-> TimeDescription(total_minutes),
         explicit_time_found |-> explicit_time > 0,
         methods_detected |-> SubSeq(methods.methods_found, 1,
                                     SetMin({3, Len(methods.methods_found)}))]

(***************************************************************************)
(* SuggestionGenerator                                                     *)
(***************************************************************************)
MEAT_INGREDIENTS ==
    <<
       <<"c","h","i","c","k","e","n">>, <<"b","e","e","f">>, <<"p","o","r","k">>, <<"l","a","m","b">>,
       <<"t","u","r","k","e","y">>, <<"d","u","c","k">>, <<"f","i","s","h">>, <<"s","a","l","m","o","n">>,
       <<"t","u","n","a">>, <<"s","h","r","i","m","p">>, <<"p","r","a","w","n">>, <<"c","r","a","b">>,
       <<"b","a","c","o","n">>, <<"h","a","m">>, <<"s","a","u","s","a","g","e">>, <<"m","e","a","t">>
    >>

\* dairy_items of detect_diet_type
dairy_items ==
    <<
       <<"m","i","l","k">>, <<"c","h","e","e","s","e">>, <<"b","u","t","t","e","r">>, <<"c","r","e","a","m">>,
       <<"y","o","g","u","r","t">>, <<"g","h","e","e">>, <<"e","g","g">>
    >>

\* ' '.join(ingredients_list)
RECURSIVE JoinSpaces(_)
JoinSpaces(items) ==
    IF items = <<>> THEN <<>>
    ELSE IF Len(items) = 1 THEN items[1]
    ELSE items[1] \o <<" ">> \o JoinSpaces(Tail(items))

\* any(word in text for word in words)
AnyIn(words, text) == \E i \in 1..Len(words) : IsSubstring(words[i], text)

\* A mutant: the dairy check comes first.
detect_diet_type_DairyFirst(ingredients_list) ==
    LET ingredients_lower == Lower(JoinSpaces(ingredients_list))
    IN  IF AnyIn(dairy_items, ingredients_lower) THEN "Vegetarian"
        ELSE IF AnyIn(MEAT_INGREDIENTS, ingredients_lower) THEN "Non-Vegetarian"
        ELSE "Vegan"

detect_diet_type(ingredients_list) ==
    LET ingredients_lower == Lower(JoinSpaces(ingredients_list))
        is_non_veg == AnyIn(MEAT_INGREDIENTS, ingredients_lower)
        has_dairy == AnyIn(dairy_items, ingredients_lower)
    IN  IF is_non_veg THEN "Non-Vegetarian"
        ELSE IF has_dairy THEN "Vegetarian"
        ELSE "Vegan"

HEALTHY_ALTERNATIVES ==
    <<
       <<<<"b","u","t","t","e","r">>,
         <<"o","l","i","v","e"," ","o","i","l"," ","o","r"," ","a","v","o","c","a","d","o">>>>,
       <<<<"c","r","e","a","m">>,
         <<"G","r","e","e","k"," ","y","o","g","u","r","t"," ","o","r"," ","c","o","c","o","n","u","t"," ","c","r","e","a","m">>>>,
       <<<<"w","h","i","t","e"," ","r","i","c","e">>,
         <<"b","r","o","w","n"," ","r","i","c","e"," ","o","r"," ","q","u","i","n","o","a">>>>,
       <<<<"p","a","s","t","a">>,
         <<"w","h","o","l","e"," ","w","h","e","a","t"," ","p","a","s","t","a"," ","o","r"," ","z","u","c","c","h","i","n","i"," ","n","o","o","d","l","e","s">>>>,
       <<<<"s","u","g","a","r">>,
         <<"h","o","n","e","y"," ","o","r"," ","m","a","p","l","e"," ","s","y","r","u","p">>>>,
       <<<<"o","i","l">>,
         <<"c","o","o","k","i","n","g"," ","s","p","r","a","y"," ","o","r"," ","b","r","o","t","h">>>>,
       <<<<"m","a","y","o","n","n","a","i","s","e">>,
         <<"G","r","e","e","k"," ","y","o","g","u","r","t"," ","o","r"," ","a","v","o","c","a","d","o">>>>,
       <<<<"s","o","u","r"," ","c","r","e","a","m">>,
         <<"G","r","e","e","k"," ","y","o","g","u","r","t">>>>,
       <<<<"g","r","o","u","n","d"," ","b","e","e","f">>,
         <<"g","r","o","u","n","d"," ","t","u","r","k","e","y"," ","o","r"," ","l","e","a","n"," ","b","e","e","f">>>>,
       <<<<"b","a","c","o","n">>,
         <<"t","u","r","k","e","y"," ","b","a","c","o","n">>>>,
       <<<<"c","h","e","e","s","e">>,
         <<"r","e","d","u","c","e","d","-","f","a","t"," ","c","h","e","e","s","e">>>>,
       <<<<"b","r","e","a","d">>,
         <<"w","h","o","l","e"," ","g","r","a","i","n"," ","b","r","e","a","d">>>>
    >>

\* f"Replace {ingredient} with {alternative}"
ReplaceWith(ingredient, alternative) ==
    <<"R","e","p","l","a","c","e"," ">> \o ingredient
    \o <<" ","w","i","t","h"," ">> \o alternative

\* A mutant: the three entries are the last ones found.
generate_healthy_alternatives_LastThree(ingredients_list) ==
    LET ingredients_lower == Lower(JoinSpaces(ingredients_list))
        found == SelectSeq(HEALTHY_ALTERNATIVES,
                           LAMBDA row : IsSubstring(row[1], ingredients_lower))
        alternatives == [i \in 1..Len(found) |-> ReplaceWith(found[i][1], found[i][2])]
    IN  SubSeq(alternatives, SetMax({1, Len(alternatives) - 2}), Len(alternatives))

generate_healthy_alternatives(ingredients_list) ==
    LET ingredients_lower == Lower(JoinSpaces(ingredients_list))
        found == SelectSeq(HEALTHY_ALTERNATIVES,
                           LAMBDA row : IsSubstring(row[1], ingredients_lower))
        alternatives == [i \in 1..Len(found) |-> ReplaceWith(found[i][1], found[i][2])]
    IN  SubSeq(alternatives, 1, SetMin({3, Len(alternatives)}))

\* A mutant: no default when no key is found.
suggest_spices_NoDefault(ingredients_list) ==
    LET ingredients_lower == Lower(JoinSpaces(ingredients_list))
        found == SelectSeq(SPICE_SUGGESTIONS,
                           LAMBDA row : IsSubstring(row[1], ingredients_lower))
        suggested_spices == ListOfSet(SpicesOf(found))
    IN  SubSeq(suggested_spices, 1, SetMin({4, Len(suggested_spices)}))

\* suggested_spices is a set when a key is found and the default list
\* otherwise; list() of the set follows the hash order.
suggest_spices(ingredients_list) ==
    LET ingredients_lower == Lower(JoinSpaces(ingredients_list))
        found == SelectSeq(SPICE_SUGGESTIONS,
                           LAMBDA row : IsSubstring(row[1], ingredients_lower))
        suggested_spices == IF found = <<>> THEN DefaultSpices
                            ELSE ListOfSet(SpicesOf(found))
    IN  SubSeq(suggested_spices, 1, SetMin({4, Len(suggested_spices)}))

\* A mutant: the calories are divided whenever servings is not 0, so that
\* negative servings give negative calories per serving.
generate_serving_tips_DividingByNegative(difficulty, total_calories, servings) ==
    LET hearty == IF servings > 0 THEN total_calories > 600 * servings
                  ELSE IF servings < 0 THEN total_calories < 600 * servings
                  ELSE total_calories > 600
        light == IF servings > 0 THEN total_calories < 300 * servings
                 ELSE IF servings < 0 THEN total_calories > 300 * servings
                 ELSE total_calories < 300
        tips ==
            (IF difficulty = "Beginner"
             THEN <<"Great recipe to start your cooking journey!">>
             ELSE IF difficulty = "Advanced"
             THEN <<"Take your time and follow each step carefully">>
             ELSE <<>>)
            \o (IF hearty
                THEN <<"This is a hearty meal - consider serving smaller portions">>
                ELSE IF light
                THEN <<"Light meal - perfect for lunch or as a side dish">>
                ELSE <<>>)
            \o <<"Taste and adjust seasoning before serving",
                 "Prepare ingredients (mise en place) before cooking",
                 "Let the dish rest for a few minutes before serving">>
    IN  SubSeq(tips, 1, SetMin({3, Len(tips)}))

\* calories_per_serving is the exact quotient <<numerator, denominator>>.
generate_serving_tips(difficulty, total_calories, servings) ==
    LET calories_per_serving == IF servings > 0 THEN <<total_calories, servings>>
                                ELSE <<total_calories, 1>>
        tips ==
            (IF difficulty = "Beginner"
             THEN <<"Great recipe to start your cooking journey!">>
             ELSE IF difficulty = "Advanced"
             THEN <<"Take your time and follow each step carefully">>
             ELSE <<>>)
            \o (IF calories_per_serving[1] > 600 * calories_per_serving[2]
                THEN <<"This is a hearty meal - consider serving smaller portions">>
                ELSE IF calories_per_serving[1] < 300 * calories_per_serving[2]
                THEN <<"Light meal - perfect for lunch or as a side dish">>
                ELSE <<>>)
            \o <<"Taste and adjust seasoning before serving",
                 "Prepare ingredients (mise en place) before cooking",
                 "Let the dish rest for a few minutes before serving">>
    IN  SubSeq(tips, 1, SetMin({3, Len(tips)}))

\* The words of the meal types (generate_suggestions).
breakfast_words ==
    <<<<"e","g","g">>,
      <<"p","a","n","c","a","k","e">>,
      <<"c","e","r","e","a","l">>,
      <<"t","o","a","s","t">>>>

lunch_words ==
    <<<<"s","a","l","a","d">>,
      <<"s","a","n","d","w","i","c","h">>,
      <<"s","o","u","p">>>>

dinner_words ==
    <<<<"s","t","e","a","k">>,
      <<"r","o","a","s","t">>,
      <<"c","a","s","s","e","r","o","l","e">>>>

\* 'Recipe looks healthy!'
RecipeLooksHealthy ==
    <<"R","e","c","i","p","e"," ","l","o","o","k","s"," ","h","e","a","l","t","h","y","!">>

\* str.lower of the diet types and the meal types.
LowerName(name) ==
    CASE name = "Non-Vegetarian" -> "non-vegetarian"
      [] name = "Vegetarian" -> "vegetarian"
      [] name = "Vegan" -> "vegan"
      [] name = "Breakfast" -> "breakfast"
      [] name = "Lunch" -> "lunch"
      [] name = "Dinner" -> "dinner"
      [] name = "Any time" -> "any time"

\* A mutant: the lunch words are looked for before the breakfast words.
generate_suggestions_LunchFirst(ingredients_list, steps_text, difficulty, total_calories, servings) ==
    LET diet_type == detect_diet_type(ingredients_list)
        healthy_alternatives == generate_healthy_alternatives(ingredients_list)
        spice_suggestions == suggest_spices(ingredients_list)
        serving_tips == generate_serving_tips(difficulty, total_calories, servings)
        ingredients_lower == Lower(JoinSpaces(ingredients_list))
        meal_type ==
            IF AnyIn(lunch_words, ingredients_lower) THEN "Lunch"
            ELSE IF AnyIn(breakfast_words, ingredients_lower) THEN "Breakfast"
            ELSE IF AnyIn(dinner_words, ingredients_lower) THEN "Dinner"
            ELSE "Any time"
    IN  [diet_type |-> diet_type,
         meal_type |-> meal_type,
         healthy_alternatives |-> IF healthy_alternatives # <<>> THEN healthy_alternatives
                                 ELSE <<RecipeLooksHealthy>>,
         spice_suggestions |-> spice_suggestions,
         serving_tips |-> serving_tips,
         quick_tip |-> <<"This is a ", LowerName(diet_type), " ",
                         LowerName(meal_type), " recipe">>]

\* A mutant: an empty list of alternatives is returned as it is.
generate_suggestions_NoPlaceholder(ingredients_list, steps_text, difficulty, total_calories, servings) ==
    LET diet_type == detect_diet_type(ingredients_list)
        healthy_alternatives == generate_healthy_alternatives(ingredients_list)
        spice_suggestions == suggest_spices(ingredients_list)
        serving_tips == generate_serving_tips(difficulty, total_calories, servings)
        ingredients_lower == Lower(JoinSpaces(ingredients_list))
        meal_type ==
            IF AnyIn(breakfast_words, ingredients_lower) THEN "Breakfast"
            ELSE IF AnyIn(lunch_words, ingredients_lower) THEN "Lunch"
            ELSE IF AnyIn(dinner_words, ingredients_lower) THEN "Dinner"
            ELSE "Any time"
    IN  [diet_type |-> diet_type,
         meal_type |-> meal_type,
         healthy_alternatives |-> healthy_alternatives,
         spice_suggestions |-> spice_suggestions,
         serving_tips |-> serving_tips,
         quick_tip |-> <<"This is a ", LowerName(diet_type), " ",
                         LowerName(meal_type), " recipe">>]

\* The quick tip is kept as the pieces of the formatted string.
generate_suggestions(ingredients_list, steps_text, difficulty, total_calories, servings) ==
    LET diet_type == detect_diet_type(ingredients_list)
        healthy_alternatives == generate_healthy_alternatives(ingredients_list)
        spice_suggestions == suggest_spices(ingredients_list)
        serving_tips == generate_serving_tips(difficulty, total_calories, servings)
        ingredients_lower == Lower(JoinSpaces(ingredients_list))
        meal_type ==
            IF AnyIn(breakfast_words, ingredients_lower) THEN "Breakfast"
            ELSE IF AnyIn(lunch_words, ingredients_lower) THEN "Lunch"
            ELSE IF AnyIn(dinner_words, ingredients_lower) THEN "Dinner"
            ELSE "Any time"
    IN  [diet_type |-> diet_type,
         meal_type |-> meal_type,
         healthy_alternatives |-> IF healthy_alternatives # <<>> THEN healthy_alternatives
                                 ELSE <<RecipeLooksHealthy>>,
         spice_suggestions |-> spice_suggestions,
         serving_tips |-> serving_tips,
         quick_tip |-> <<"This is a ", LowerName(diet_type), " ",
                         LowerName(meal_type), " recipe">>]

(***************************************************************************)
(* The calls.  A request names a component and carries its arguments; the  *)
(* caller is at `ready` before the call and at `done` after it, may ask    *)
(* `again` with the same arguments, and is at `repeated` after the second  *)
(* call.  The server process may be restarted between the two calls.       *)
(***************************************************************************)
MaxLines == 3

MaxIngredients == 12

MaxBlank == 1

MaxHeadLines == 1

MaxFiller == 7

\* The salts of two processes.
HashSeeds == {0, 1}

RECURSIVE Concat(_)
Concat(parts) ==
    IF parts = <<>> THEN <<>> ELSE Head(parts) \o Concat(Tail(parts))

RECURSIVE JoinLines(_)
JoinLines(lines) ==
    IF lines = <<>> THEN <<>>
    ELSE IF Len(lines) = 1 THEN lines[1]
    ELSE lines[1] \o <<"\n">> \o JoinLines(Tail(lines))

SeqsUpTo(S, n) == UNION {[1..k -> S] : k \in 0..n}

\* Ingredient lines put together from a number, a word and a rest, with or
\* without whitespace around and between them.
LeadParts ==
    {<<>>,
     <<" ">>}

NumberParts ==
    {<<>>,
     <<"2">>,
     <<"1",".","5">>,
     <<"2",".">>,
     <<"5","0","0">>}

GapParts ==
    {<<>>,
     <<" ">>,
     <<" ","\t">>}

WordParts ==
    {<<>>,
     <<"c","u","p","s">>,
     <<"g">>,
     <<"K","g">>,
     <<"l","a","r","g","e">>,
     <<"r","i","c","e">>}

RestParts ==
    {<<>>,
     <<"R","i","c","e">>,
     <<"c","h","i","c","k","e","n"," ","t","h","i","g","h">>,
     <<"4"," ","x">>,
     <<"-","x">>}

QuantityLines ==
    {Concat(<<lead, number, gap1, word, gap2, rest, trail>>) :
        lead \in LeadParts, number \in NumberParts, gap1 \in LeadParts,
        word \in WordParts, gap2 \in GapParts, rest \in RestParts,
        trail \in LeadParts}

IngredientNames ==
    {<<>>,
     <<"a">>,
     <<"x">>,
     <<"q">>,
     <<"c","h","i","c","k","e","n"," ","b","r","e","a","s","t">>,
     <<"c","h","i","c","k","e","n"," ","t","h","i","g","h">>,
     <<"t","h","i","g","h">>,
     <<"R","i","c","e">>,
     <<"b","r","o","w","n"," ","r","i","c","e"," ","p","i","l","a","f">>,
     <<"r","a","n","d","o","m"," ","u","n","k","n","o","w","n"," ","f","o","o","d">>,
     <<"e","g","g","s">>,
     <<"z","z">>,
     <<"O","I","L">>,
     <<"o","l","i","v","e">>,
     <<"s","w","e","e","t"," ","p","o","t","a","t","o"," ","f","r","i","e","s">>,
     <<"g","r","o","u","n","d"," ","b","e","e","f">>,
     <<"h","e","a","v","y">>,
     <<"p","e","a","n","u","t"," ","b","u","t","t","e","r">>}

IngredientLines ==
    {<<>>,
     <<" ">>,
     <<"s","a","l","t">>,
     <<"2"," ","c","u","p","s"," ","R","i","c","e">>,
     <<"1","g"," ","a","p","p","l","e">>,
     <<"2","g"," ","m","u","s","h","r","o","o","m">>,
     <<"2","g"," ","s","t","r","a","w","b","e","r","r","y">>}

SaltLine == <<"s","a","l","t">>

BlankLine == <<" ">>

\* n lines, the first b of them blank
PaddedList(n, b) == [i \in 1..n |-> IF i <= b THEN BlankLine ELSE SaltLine]

PaddedLists ==
    {PaddedList(n, b) : n \in 0..MaxIngredients, b \in 0..MaxBlank}

IngredientLists == SeqsUpTo(IngredientLines, MaxLines) \cup PaddedLists

HeadLines ==
    {<<"1","."," ","F","o","l","d"," ","i","n"," ","t","h","e"," ","f","l","o","u","r">>,
     <<"B","r","a","i","s","e"," ","2"," ","h","o","u","r","s">>,
     <<"w","h","i","s","k",","," ","t","h","e","n"," ","2",")"," ","b","a","k","e">>,
     <<"F","o","l","d",","," ","t","h","e","n"," ","w","h","i","s","k">>}

FillerLine == <<"3","."," ","s","t","i","r">>

FillerLines(k) == [i \in 1..k |-> FillerLine]

StepsTexts ==
    {JoinLines(head \o FillerLines(k)) :
        head \in SeqsUpTo(HeadLines, MaxHeadLines), k \in 0..MaxFiller}

\* Step texts put together from technique phrases.
MaxPhrases == 2

TechniquePhrases ==
    {<<"B","r","a","i","s","e">>,
     <<"s","o","u","s"," ","v","i","d","e">>,
     <<"w","h","i","s","k">>,
     <<"m","a","r","i","n","a","t","e"," ","o","v","e","r","n","i","g","h","t">>,
     <<"F","o","l","d"," ","i","n">>,
     <<"m","i","x">>}

PhraseGap == <<","," ","t","h","e","n"," ">>

RECURSIVE JoinPhrases(_)
JoinPhrases(phrases) ==
    IF phrases = <<>> THEN <<>>
    ELSE IF Len(phrases) = 1 THEN phrases[1]
    ELSE phrases[1] \o PhraseGap \o JoinPhrases(Tail(phrases))

TechniqueTexts ==
    {JoinPhrases(phrases) : phrases \in SeqsUpTo(TechniquePhrases, MaxPhrases)}

\* Step texts put together from lines with and without numbered markers.
MaxStepLines == 2

StepLines ==
    {<<>>,
     <<" ">>,
     <<"1","."," ","m","i","x"," ","2","."," ","b","a","k","e">>,
     <<"1",")"," ","m","i","x">>,
     <<" ","2","."," ","s","t","i","r">>,
     <<"s","t","i","r"," ","2",".","5"," ","c","u","p","s">>,
     <<"s","t","e","p"," ","1",".">>,
     <<"r","e","s","t">>}

StepLineTexts ==
    {JoinLines(lines) : lines \in SeqsUpTo(StepLines, MaxStepLines)}

\* Step texts put together from phrases that mention times and methods.
MaxTimePhrases == 2

MaxStepCount == 7

TimePhrases ==
    {<<"B","a","k","e">>,
     <<"5"," ","m","i","n","u","t","e","s">>,
     <<"2"," ","h","o","u","r","s">>,
     <<"3","0"," ","M","i","n","s">>,
     <<"4","0"," ","s","e","c","o","n","d","s">>,
     <<"9","0"," ","s","e","c","s">>,
     <<"2","0"," ","s","e","c","o","n","d","s">>,
     <<"1"," ","m","i","n","u","t","e">>,
     <<"3"," ","m","i","n","c","e","d">>}

TimeGap == <<" ","a","n","d"," ">>

RECURSIVE JoinTimes(_)
JoinTimes(phrases) ==
    IF phrases = <<>> THEN <<>>
    ELSE IF Len(phrases) = 1 THEN phrases[1]
    ELSE phrases[1] \o TimeGap \o JoinTimes(Tail(phrases))

TimeTexts ==
    {JoinTimes(phrases) : phrases \in SeqsUpTo(TimePhrases, MaxTimePhrases)}

\* Step texts put together from phrases that name cooking methods.
MaxMethodPhrases == 2

MethodPhrases ==
    {<<"B","a","k","e">>,
     <<"r","o","a","s","t","i","n","g">>,
     <<"m","a","r","i","n","a","t","e"," ","o","v","e","r","n","i","g","h","t">>,
     <<"S","a","u","t","e_acute">>,
     <<"s","t","i","r">>}

MethodTexts ==
    {JoinTimes(phrases) : phrases \in SeqsUpTo(MethodPhrases, MaxMethodPhrases)}

\* The bodies of the requests for the time analysis: the steps as lines,
\* blank ones among them, and the step count given or left out.
MaxBodyLines == 3

MaxGivenCount == 2

BodyLines ==
    {<<>>,
     <<" ">>,
     <<"B","a","k","e">>,
     <<"m","i","x"," ","w","e","l","l">>}

BodyTexts ==
    {JoinLines(lines) : lines \in SeqsUpTo(BodyLines, MaxBodyLines)}

TimeBodies ==
    [has_steps : {FALSE}, steps : {<<>>}, has_count : {FALSE}, step_count : {0}]
    \cup [has_steps : {TRUE}, steps : BodyTexts,
          has_count : {FALSE}, step_count : {0}]
    \cup [has_steps : {TRUE}, steps : BodyTexts,
          has_count : {TRUE}, step_count : 0..MaxGivenCount]

\* Ingredient lists for the suggestions.
MaxDietItems == 2

DietItems ==
    {<<>>,
     <<"C","h","i","c","k","e","n">>,
     <<"m","i","l","k">>,
     <<"r","i","c","e">>,
     <<"e","g","g","p","l","a","n","t">>,
     <<"h","a","m","b","u","r","g","e","r"," ","b","u","n">>,
     <<"C","r","e","a","m"," ","c","h","e","e","s","e">>,
     <<"b","e","a","n","s">>}

DietLists == SeqsUpTo(DietItems, MaxDietItems)

\* Ingredient lists for the alternatives, the spices and the meal type.
MaxSuggestionItems == 2

SuggestionItems ==
    {<<>>,
     <<"C","h","i","c","k","e","n">>,
     <<"g","r","o","u","n","d"," ","b","e","e","f">>,
     <<"s","o","u","r"," ","c","r","e","a","m">>,
     <<"B","u","t","t","e","r"," ","a","n","d"," ","s","u","g","a","r">>,
     <<"e","g","g"," ","s","a","l","a","d">>,
     <<"r","o","a","s","t">>,
     <<"s","o","u","p">>,
     <<"r","i","c","e">>}

SuggestionLists == SeqsUpTo(SuggestionItems, MaxSuggestionItems)

\* The difficulty, the calories and the servings handed to the tips.
Difficulties == {"Beginner", "Intermediate", "Advanced"}

CalorieTotals == {0, 299, 300, 599, 600, 601, 1200, 1203, 1800, 1803}

ServingCounts == {-1, 0, 1, 2, 3}

\* The difficulty, the calories and the servings handed to
\* generate_suggestions.
SuggestionArguments ==
    {<<"Beginner", 700, 0>>, <<"Intermediate", 500, 2>>, <<"Advanced", 1803, 3>>}

Requests ==
    [op : {"extract_quantity"}, line : QuantityLines]
    \cup [op : {"find_ingredient_match"}, name : IngredientNames]
    \cup [op : {"estimate_calories"}, ingredients : IngredientLists]
    \cup [op : {"analyze_difficulty"}, ingredients : PaddedLists, steps : StepsTexts]
    \cup [op : {"count_steps"}, steps : StepLineTexts]
    \cup [op : {"analyze_complexity"}, steps : TechniqueTexts]
    \cup [op : {"extract_explicit_time"}, steps : TimeTexts]
    \cup [op : {"predict_time"}, steps : TimeTexts \cup MethodTexts,
          step_count : 0..MaxStepCount]
    \cup [op : {"estimate_from_methods"}, steps : MethodTexts]
    \cup [op : {"analyze_time"}, data : TimeBodies]
    \cup [op : {"detect_diet_type"}, ingredients : DietLists]
    \cup [op : {"generate_healthy_alternatives"}, ingredients : SuggestionLists]
    \cup [op : {"suggest_spices"}, ingredients : SuggestionLists]
    \cup [op : {"generate_serving_tips"}, difficulty : Difficulties,
          total_calories : CalorieTotals, servings : ServingCounts]
    \cup [op : {"generate_suggestions"}, ingredients : SuggestionLists,
          steps : {<<>>}, tips : SuggestionArguments]

NoResult == [op |-> "none"]

\* The class attributes of the components: the state the calls share.
StaticTables ==
    [CALORIE_DATABASE |-> CALORIE_DATABASE,
     MEASUREMENT_CONVERSIONS |-> MEASUREMENT_CONVERSIONS,
     COMPLEX_TECHNIQUES |-> COMPLEX_TECHNIQUES,
     MODERATE_TECHNIQUES |-> MODERATE_TECHNIQUES,
     COOKING_METHOD_TIME |-> COOKING_METHOD_TIME,
     MEAT_INGREDIENTS |-> MEAT_INGREDIENTS,
     HEALTHY_ALTERNATIVES |-> HEALTHY_ALTERNATIVES,
     SPICE_SUGGESTIONS |-> SPICE_SUGGESTIONS]

\* One caller at a time: a call is one step, no frame outlives it.
Init ==
    /\ req \in Requests
    /\ pc = "ready"
    /\ result = NoResult
    /\ prev = NoResult
    /\ hashSeed \in HashSeeds
    /\ locals = <<>>
    /\ args = <<>>
    /\ tables = StaticTables

\* The caller's step over a call of `op` that returns `value`.
Returned(op, value) ==
    /\ prev' = result
    /\ result' = [op |-> op, value |-> value]
    /\ pc' = IF pc = "ready" THEN "done" ELSE "repeated"
    /\ UNCHANGED <<req, hashSeed, locals, args, tables>>

ExtractQuantity ==
    /\ pc \in {"ready", "again"}
    /\ req.op = "extract_quantity"
    /\ Returned("extract_quantity", extract_quantity(req.line))

FindIngredientMatch ==
    /\ pc \in {"ready", "again"}
    /\ req.op = "find_ingredient_match"
    /\ Returned("find_ingredient_match", find_ingredient_match(req.name))

EstimateCalories ==
    /\ pc \in {"ready", "again"}
    /\ req.op = "estimate_calories"
    /\ Returned("estimate_calories", estimate_calories(req.ingredients))

AnalyzeDifficulty ==
    /\ pc \in {"ready", "again"}
    /\ req.op = "analyze_difficulty"
    /\ Returned("analyze_difficulty", analyze_difficulty(req.ingredients, req.steps))

CountSteps ==
    /\ pc \in {"ready", "again"}
    /\ req.op = "count_steps"
    /\ Returned("count_steps", count_steps(req.steps))

AnalyzeComplexity ==
    /\ pc \in {"ready", "again"}
    /\ req.op = "analyze_complexity"
    /\ Returned("analyze_complexity", analyze_complexity(req.steps))

ExtractExplicitTime ==
    /\ pc \in {"ready", "again"}
    /\ req.op = "extract_explicit_time"
    /\ Returned("extract_explicit_time", extract_explicit_time(req.steps))

EstimateFromMethods ==
    /\ pc \in {"ready", "again"}
    /\ req.op = "estimate_from_methods"
    /\ Returned("estimate_from_methods", estimate_from_methods(req.steps))

PredictTime ==
    /\ pc \in {"ready", "again"}
    /\ req.op = "predict_time"
    /\ Returned("predict_time", predict_time(req.steps, req.step_count))

\* len(steps.split('\n'))
DefaultStepCount(steps) == Len(SplitLines(steps))

\* The handler of POST /api/analysis/time.  The response is the status with
\* the message or the analysis; step_count is the count the handler passed
\* to predict_time, kept beside the response.
analyze_time(data) ==
    IF ~data.has_steps
    THEN [status |-> 400, message |-> "Steps required"]
    ELSE LET steps == Strip(data.steps)
             step_count == IF data.has_count THEN data.step_count
                           ELSE DefaultStepCount(steps)
         IN  IF steps = <<>>
             THEN [status |-> 400, message |-> "Steps cannot be empty"]
             ELSE [status |-> 200,
                   analysis |-> predict_time(steps, step_count),
                   step_count |-> step_count]

AnalyzeTime ==
    /\ pc \in {"ready", "again"}
    /\ req.op = "analyze_time"
    /\ Returned("analyze_time", analyze_time(req.data))

DetectDietType ==
    /\ pc \in {"ready", "again"}
    /\ req.op = "detect_diet_type"
    /\ Returned("detect_diet_type", detect_diet_type(req.ingredients))

GenerateHealthyAlternatives ==
    /\ pc \in {"ready", "again"}
    /\ req.op = "generate_healthy_alternatives"
    /\ Returned("generate_healthy_alternatives",
                generate_healthy_alternatives(req.ingredients))

SuggestSpices ==
    /\ pc \in {"ready", "again"}
    /\ req.op = "suggest_spices"
    /\ Returned("suggest_spices", suggest_spices(req.ingredients))

GenerateServingTips ==
    /\ pc \in {"ready", "again"}
    /\ req.op = "generate_serving_tips"
    /\ Returned("generate_serving_tips",
                generate_serving_tips(req.difficulty, req.total_calories,
                                      req.servings))

GenerateSuggestions ==
    /\ pc \in {"ready", "again"}
    /\ req.op = "generate_suggestions"
    /\ Returned("generate_suggestions",
                generate_suggestions(req.ingredients, req.steps, req.tips[1],
                                     req.tips[2], req.tips[3]))

Next ==
    \/ ExtractQuantity
    \/ FindIngredientMatch
    \/ EstimateCalories
    \/ AnalyzeDifficulty
    \/ CountSteps
    \/ AnalyzeComplexity
    \/ ExtractExplicitTime
    \/ EstimateFromMethods
    \/ PredictTime
    \/ AnalyzeTime
    \/ DetectDietType
    \/ GenerateHealthyAlternatives
    \/ SuggestSpices
    \/ GenerateServingTips
    \/ GenerateSuggestions

Spec == Init /\ [][Next]_vars

\* The same request once more, and a restart of the server process, which
\* salts the string hashes anew.
Again ==
    /\ pc = "done"
    /\ pc' = "again"
    /\ UNCHANGED <<req, result, prev, hashSeed, locals, args, tables>>

Restart ==
    /\ pc = "done"
    /\ hashSeed' \in HashSeeds \ {hashSeed}
    /\ UNCHANGED <<req, pc, result, prev, locals, args, tables>>

RepeatLists == SeqsUpTo({SaltLine, BlankLine}, MaxLines)

RepeatRequests ==
    [op : {"extract_quantity"}, line : IngredientLines]
    \cup [op : {"find_ingredient_match"}, name : IngredientNames]
    \cup [op : {"estimate_calories"}, ingredients : RepeatLists]
    \cup [op : {"analyze_difficulty"}, ingredients : RepeatLists,
          steps : {JoinLines(head) : head \in SeqsUpTo(HeadLines, MaxHeadLines)}]

InitRepeat ==
    /\ req \in RepeatRequests
    /\ pc = "ready"
    /\ result = NoResult
    /\ prev = NoResult
    /\ hashSeed \in HashSeeds
    /\ locals = <<>>
    /\ args = <<>>
    /\ tables = StaticTables

NextRepeat ==
    \/ ExtractQuantity
    \/ FindIngredientMatch
    \/ EstimateCalories
    \/ AnalyzeDifficulty
    \/ Again
    \/ Restart

SpecRepeat == InitRepeat /\ [][NextRepeat]_vars

(***************************************************************************)
(* Several threads of one server process, each inside a call of its own.   *)
(* req, pc and result are kept per thread here.  args[t] is the list       *)
(* object thread t passed, locals the frames of the running calls, and     *)
(* tables the class attributes all calls read.  estimate_calories runs     *)
(* line by line, and the threads take their steps in any order.            *)
(***************************************************************************)
NumThreads == 2

Threads == 1..NumThreads

ThreadLists ==
    {<<>>,
     <<<<"1","g"," ","a","p","p","l","e">>, <<"2","g"," ","m","u","s","h","r","o","o","m">>>>,
     <<<<" ">>, <<"2","g"," ","s","t","r","a","w","b","e","r","r","y">>>>}

ThreadRequests ==
    [op : {"estimate_calories"}, ingredients : ThreadLists]
    \cup [op : {"analyze_difficulty"}, ingredients : {<<SaltLine>>},
          steps : {<<"w","h","i","s","k",","," ","t","h","e","n"," ","2",")"," ","b","a","k","e">>}]
    \cup [op : {"predict_time"}, ingredients : {<<>>},
          steps : {<<"B","a","k","e"," ","a","n","d"," ","4","0"," ","s","e","c","o","n","d","s">>}, step_count : {3}]
    \cup [op : {"detect_diet_type"}, ingredients : {<<<<"C","h","i","c","k","e","n">>, <<"m","i","l","k">>>>}]
    \cup [op : {"generate_suggestions"},
          ingredients : {<<<<"C","h","i","c","k","e","n">>, <<"e","g","g"," ","s","a","l","a","d">>>>},
          steps : {<<>>}, tips : {<<"Beginner", 700, 0>>}]

InitThreads ==
    /\ req \in [Threads -> ThreadRequests]
    /\ pc = [t \in Threads |-> "ready"]
    /\ result = [t \in Threads |-> NoResult]
    /\ prev = NoResult
    /\ hashSeed \in HashSeeds
    /\ locals = [t \in Threads |-> [i |-> 0, total_calories |-> <<0, 1>>,
                                    breakdown |-> <<>>]]
    /\ args = [t \in Threads |-> req[t].ingredients]
    /\ tables = StaticTables

\* A mutant: the loop variables are kept in one place for all calls.
LocalShared(t) == 1

\* The frame that holds the loop variables of thread t's call.
Local(t) == t

\* total_calories = 0; breakdown = []
EnterEstimate(t) ==
    /\ pc[t] = "ready"
    /\ req[t].op = "estimate_calories"
    /\ pc' = [pc EXCEPT ![t] = "loop"]
    /\ locals' = [locals EXCEPT ![Local(t)] =
                      [i |-> 1, total_calories |-> <<0, 1>>, breakdown |-> <<>>]]
    /\ UNCHANGED <<req, result, prev, hashSeed, args, tables>>

\* One pass of `for ingredient in ingredients_list`.
LineEstimate(t) ==
    /\ pc[t] = "loop"
    /\ locals[Local(t)].i <= Len(args[t])
    /\ LET l == locals[Local(t)]
           after == CalorieLoop(<<args[t][l.i]>>, 1, l.total_calories, l.breakdown)
       IN  locals' = [locals EXCEPT ![Local(t)] =
                          [i |-> l.i + 1,
                           total_calories |-> after.total_calories,
                           breakdown |-> after.breakdown]]
    /\ UNCHANGED <<req, pc, result, prev, hashSeed, args, tables>>

\* The return of estimate_calories.
ReturnEstimate(t) ==
    /\ pc[t] = "loop"
    /\ locals[Local(t)].i > Len(args[t])
    /\ LET l == locals[Local(t)]
       IN  result' = [result EXCEPT ![t] =
                          [op |-> "estimate_calories",
                           value |-> [total_calories |-> Round(l.total_calories),
                                      breakdown |-> l.breakdown,
                                      servings_estimate |->
                                          SetMax({1, Len(args[t]) \div 3})]]]
    /\ pc' = [pc EXCEPT ![t] = "done"]
    /\ UNCHANGED <<req, prev, hashSeed, locals, args, tables>>

\* A call of analyze_difficulty, which keeps nothing between its steps but
\* its own local values.
CallDifficulty(t) ==
    /\ pc[t] = "ready"
    /\ req[t].op = "analyze_difficulty"
    /\ result' = [result EXCEPT ![t] =
                      [op |-> "analyze_difficulty",
                       value |-> analyze_difficulty(args[t], req[t].steps)]]
    /\ pc' = [pc EXCEPT ![t] = "done"]
    /\ UNCHANGED <<req, prev, hashSeed, locals, args, tables>>

\* A call of predict_time, likewise.
CallPredictTime(t) ==
    /\ pc[t] = "ready"
    /\ req[t].op = "predict_time"
    /\ result' = [result EXCEPT ![t] =
                      [op |-> "predict_time",
                       value |-> predict_time(req[t].steps, req[t].step_count)]]
    /\ pc' = [pc EXCEPT ![t] = "done"]
    /\ UNCHANGED <<req, prev, hashSeed, locals, args, tables>>

\* A call of detect_diet_type, likewise.
CallDetectDiet(t) ==
    /\ pc[t] = "ready"
    /\ req[t].op = "detect_diet_type"
    /\ result' = [result EXCEPT ![t] =
                      [op |-> "detect_diet_type",
                       value |-> detect_diet_type(args[t])]]
    /\ pc' = [pc EXCEPT ![t] = "done"]
    /\ UNCHANGED <<req, prev, hashSeed, locals, args, tables>>

\* A call of generate_suggestions, likewise.
CallGenerateSuggestions(t) ==
    /\ pc[t] = "ready"
    /\ req[t].op = "generate_suggestions"
    /\ result' = [result EXCEPT ![t] =
                      [op |-> "generate_suggestions",
                       value |-> generate_suggestions(args[t], req[t].steps,
                                                      req[t].tips[1], req[t].tips[2],
                                                      req[t].tips[3])]]
    /\ pc' = [pc EXCEPT ![t] = "done"]
    /\ UNCHANGED <<req, prev, hashSeed, locals, args, tables>>

NextThreads ==
    \E t \in Threads :
        \/ EnterEstimate(t)
        \/ LineEstimate(t)
        \/ ReturnEstimate(t)
        \/ CallDifficulty(t)
        \/ CallPredictTime(t)
        \/ CallDetectDiet(t)
        \/ CallGenerateSuggestions(t)

SpecThreads == InitThreads /\ [][NextThreads]_vars

(***************************************************************************)
(* The claims.  value is what the call returned, and the claims read the   *)
(* request beside it.                                                      *)
(***************************************************************************)
value == result.value

NonBlankLines(ingredients_list) ==
    SelectSeq(ingredients_list, LAMBDA l : Strip(l) # <<>>)

\* calories_per_100g * grams / 100 of one line, exact
ExactCalories(ingredient) ==
    LET q == extract_quantity(ingredient)
    IN  <<find_ingredient_match(q.name) * q.grams[1], 100 * q.grams[2]>>

RECURSIVE ExactTotal(_)
ExactTotal(lines) ==
    IF lines = <<>> THEN <<0, 1>>
    ELSE RatAdd(ExactCalories(Head(lines)), ExactTotal(Tail(lines)))

\* The sum of the one-decimal 'calories' of the entries, in tenths.
RECURSIVE BreakdownTenths(_)
BreakdownTenths(breakdown) ==
    IF breakdown = <<>> THEN 0
    ELSE Head(breakdown).calories + BreakdownTenths(Tail(breakdown))

\* C1 as claimed: total_calories is the rounded sum of the 'calories' values
\* of the breakdown entries.
C1_TotalIsRoundedBreakdownSum ==
    result.op = "estimate_calories" =>
        value.total_calories = Round(<<BreakdownTenths(value.breakdown), 10>>)

\* C1 amended: total_calories is the rounded sum of the exact per-line
\* calories (calories per 100 g x grams / 100 of every non-blank line), and
\* each breakdown 'calories' is that line's exact value rounded to one
\* decimal; the total is rounded once, at the end.
C1_TotalIsRoundedExactSum ==
    result.op = "estimate_calories" =>
        LET lines == NonBlankLines(req.ingredients)
        IN  /\ value.total_calories = Round(ExactTotal(lines))
            /\ Len(value.breakdown) = Len(lines)
            /\ \A i \in 1..Len(lines) :
                   value.breakdown[i].calories = Round1(ExactCalories(lines[i]))

\* Three entries whose roundings to one decimal add up to a different total:
\* 0.44 + 0.44 + 0.64 = 1.52 rounds to 2, 0.4 + 0.4 + 0.6 = 1.4 to 1.
C1_Witness ==
    /\ result.op = "estimate_calories"
    /\ Len(value.breakdown) = 3
    /\ value.total_calories = 2
    /\ BreakdownTenths(value.breakdown) = 14

\* C2: the breakdown has one entry per non-blank input line, in input
\* order, entry i computed from the i-th non-blank line; blank lines (empty
\* or whitespace only) give no entry.
C2_BreakdownFollowsNonBlankLines ==
    result.op = "estimate_calories" =>
        LET lines == NonBlankLines(req.ingredients)
        IN  /\ Len(value.breakdown) = Len(lines)
            /\ \A i \in 1..Len(lines) :
                   /\ value.breakdown[i].ingredient = Strip(lines[i])
                   /\ value.breakdown[i].estimated_grams
                          = Round1(extract_quantity(lines[i]).grams)
                   /\ value.breakdown[i].calories = Round1(ExactCalories(lines[i]))

\* An entry, a whitespace-only line, then a different entry.
C2_Witness ==
    /\ result.op = "estimate_calories"
    /\ Len(req.ingredients) = 3
    /\ req.ingredients[1] # <<>>
    /\ req.ingredients[2] = <<" ">>
    /\ Len(value.breakdown) = 2
    /\ value.breakdown[1].ingredient # value.breakdown[2].ingredient

\* C3: servings_estimate = max(1, N div 3), N the length of the input list
\* with its blank lines; so it is at least 1.
C3_ServingsFromInputLength ==
    result.op = "estimate_calories" =>
        LET n == Len(req.ingredients)
        IN  /\ value.servings_estimate = (IF n \div 3 >= 1 THEN n \div 3 ELSE 1)
            /\ value.servings_estimate >= 1

\* A list whose blank line decides: six lines, five entries, two servings.
C3_Witness ==
    /\ result.op = "estimate_calories"
    /\ Len(req.ingredients) = 6
    /\ Len(value.breakdown) = 5
    /\ value.servings_estimate = 2

\* C4 as claimed: a second call with the same arguments returns what the
\* first call returned, every list field in the same order.
C4_SecondCallReturnsTheSame ==
    pc = "repeated" => result = prev

\* C5: a line without a leading number gives 100 grams and the whole line,
\* lowercased and trimmed, as the name.
C5_NoNumberGivesDefault ==
    (/\ result.op = "extract_quantity"
     /\ LET l == Strip(Lower(req.line)) IN l = <<>> \/ l[1] \notin Digits)
    => /\ RatEq(value.grams, <<100, 1>>)
       /\ value.name = Strip(Lower(req.line))

\* A line of letters, upper case among them, with whitespace around it.
C5_Witness ==
    /\ result.op = "extract_quantity"
    /\ req.line # Strip(req.line)
    /\ Lower(req.line) # req.line
    /\ Strip(req.line)[1] \notin Digits
    /\ RatEq(value.grams, <<100, 1>>)
    /\ value.name = Strip(Lower(req.line))

\* How a line reads from the left, without backtracking: the longest number,
\* the whitespace after it, the run of letters after that (the unit token),
\* the whitespace after the token, and the rest.
RunEnd(l, from, class) ==
    SetMax({e \in (from - 1)..Len(l) : AllIn(l, from, e, class)})

Shape(ingredient_line) ==
    LET l == Strip(Lower(ingredient_line))
        e1 == SetMax({0} \cup {e \in 1..Len(l) : IsNumberToken(SubSeq(l, 1, e))})
        e2 == RunEnd(l, e1 + 1, Whitespace)
        e3 == RunEnd(l, e2 + 1, LowerLetters)
        e4 == RunEnd(l, e3 + 1, Whitespace)
    IN  [number |-> SubSeq(l, 1, e1),
         gap |-> SubSeq(l, e1 + 1, e2),
         token |-> SubSeq(l, e2 + 1, e3),
         after |-> SubSeq(l, e3 + 1, e4),
         rest |-> SubSeq(l, e4 + 1, Len(l)),
         fromToken |-> SubSeq(l, e2 + 1, Len(l))]

\* The number of a \d+\.?\d* text, read digit by digit.
NumberValue(text) ==
    LET dot == {i \in 1..Len(text) : text[i] = "."}
        digits == SelectSeq(text, LAMBDA c : c # ".")
        places == IF dot = {} THEN 0 ELSE Len(text) - SetMin(dot)
    IN  <<ParseInt(digits), Pow10(places)>>

UnitGrams(token) ==
    MEASUREMENT_CONVERSIONS[CHOOSE i \in 1..Len(MEASUREMENT_CONVERSIONS) :
                                MEASUREMENT_CONVERSIONS[i][1] = token][2]

Times(x, k) == <<x[1] * k, x[2]>>

\* The token is followed by whitespace and more text.
TokenTaken(sh) == sh.number # <<>> /\ sh.token # <<>> /\ sh.after # <<>> /\ sh.rest # <<>>

\* The number is followed by whitespace and text, and no token is taken.
NoTokenTaken(sh) ==
    /\ sh.number # <<>>
    /\ sh.gap # <<>>
    /\ sh.fromToken # <<>>
    /\ (sh.token = <<>> \/ sh.after = <<>>)

\* C6 as claimed: when a number is parsed and the token after it is not a
\* unit of the table, or there is no token, the grams are the number.
C6_UnknownUnitIsOneGram ==
    (/\ result.op = "extract_quantity"
     /\ LET sh == Shape(req.line)
        IN  \/ TokenTaken(sh) /\ ~IsUnit(sh.token)
            \/ NoTokenTaken(sh))
    => RatEq(value.grams, NumberValue(Shape(req.line).number))

\* C6 amended: a token that is followed by whitespace and more text and is
\* not a unit of the table converts at 100 grams per unit and is left out of
\* the name; where no token is taken (the number is followed by whitespace
\* and then by a single word or by text that does not start with a letter)
\* the grams are the number and the name is all the text after the number.
C6_UnknownUnitIsHundredGrams ==
    result.op = "extract_quantity" =>
        LET sh == Shape(req.line)
        IN  /\ (TokenTaken(sh) /\ ~IsUnit(sh.token)) =>
                   /\ RatEq(value.grams, Times(NumberValue(sh.number), 100))
                   /\ value.name = sh.rest
            /\ NoTokenTaken(sh) =>
                   /\ RatEq(value.grams, NumberValue(sh.number))
                   /\ value.name = sh.fromToken

\* "2 large rice": 200 grams of rice.
C6_Witness ==
    /\ result.op = "extract_quantity"
    /\ TokenTaken(Shape(req.line))
    /\ ~IsUnit(Shape(req.line).token)
    /\ RatEq(value.grams, <<200, 1>>)
    /\ value.name = <<"r","i","c","e">>

\* C7: number, optional whitespace, a unit of the table, whitespace, name:
\* the grams are number x table[unit] and the name is the rest, lowercased
\* and trimmed, without the unit.
C7_KnownUnitConverts ==
    (/\ result.op = "extract_quantity"
     /\ TokenTaken(Shape(req.line))
     /\ IsUnit(Shape(req.line).token))
    => LET sh == Shape(req.line)
       IN  /\ RatEq(value.grams, Times(NumberValue(sh.number), UnitGrams(sh.token)))
           /\ value.name = sh.rest

\* "1.5Kg Rice" and the like: 1500 grams of rice, no whitespace before the
\* unit.
C7_Witness ==
    /\ result.op = "extract_quantity"
    /\ Shape(req.line).gap = <<>>
    /\ Shape(req.line).token = <<"k","g">>
    /\ RatEq(value.grams, <<1500, 1>>)
    /\ value.name = <<"r","i","c","e">>
    /\ req.line # Lower(req.line)

Related(key, name) == IsSubstring(key, name) \/ IsSubstring(name, key)

KeysEqual(name) ==
    {i \in 1..Len(CALORIE_DATABASE) : CALORIE_DATABASE[i][1] = name}

KeysRelated(name) ==
    {i \in 1..Len(CALORIE_DATABASE) : Related(CALORIE_DATABASE[i][1], name)}

\* C8: a name that is a key of the table gets that key's value, whatever
\* other keys it contains; any other name gets the value of the first key,
\* in the order of the table, that is in the name or that the name is in.
C8_ExactThenFirstRelatedKey ==
    result.op = "find_ingredient_match" =>
        LET name == Lower(req.name)
        IN  /\ \A i \in KeysEqual(name) : value = CALORIE_DATABASE[i][2]
            /\ (KeysEqual(name) = {} /\ KeysRelated(name) # {}) =>
                   value = CALORIE_DATABASE[SetMin(KeysRelated(name))][2]

\* 'chicken thigh' is a key, and 'chicken', an earlier key with another
\* value, is in it.
C8_Witness ==
    /\ result.op = "find_ingredient_match"
    /\ KeysEqual(Lower(req.name)) # {}
    /\ SetMin(KeysRelated(Lower(req.name))) \notin KeysEqual(Lower(req.name))
    /\ CALORIE_DATABASE[SetMin(KeysRelated(Lower(req.name)))][2] # value

\* C9: every name gets a value, a value of the table or 150; a name that no
\* key is in and that is in no key gets 150.
C9_TotalWithFallback ==
    result.op = "find_ingredient_match" =>
        /\ \/ value = 150
           \/ \E i \in 1..Len(CALORIE_DATABASE) : value = CALORIE_DATABASE[i][2]
        /\ KeysRelated(Lower(req.name)) = {} => value = 150

C9_Witness ==
    /\ result.op = "find_ingredient_match"
    /\ Len(req.name) > 1
    /\ KeysRelated(Lower(req.name)) = {}
    /\ value = 150

C11_ScoreInThreeToNine ==
    result.op = "analyze_difficulty" => value.score \in 3..9

\* The keywords of `table` that occur in the lowercased text, each once.
KeywordsIn(table, text) ==
    LET text_lower == Lower(text)
    IN  {table[i] : i \in {j \in 1..Len(table) : IsSubstring(table[j], text_lower)}}

\* C12 as claimed: the complexity score is 3 for each distinct complex
\* keyword that occurs in the lowercased text plus 1 for each distinct
\* moderate keyword that occurs; 'braise' with 'sous vide' scores 6.
C12_ThreePerDistinctComplexKeyword ==
    result.op = "analyze_complexity" =>
        value.complexity_score =
            3 * Cardinality(KeywordsIn(COMPLEX_TECHNIQUES, req.steps))
            + Cardinality(KeywordsIn(MODERATE_TECHNIQUES, req.steps))

\* The lines of the text that hold something else than whitespace.
TrimmedLines(text) ==
    SelectSeq(SplitLines(text), LAMBDA l : \E i \in 1..Len(l) : l[i] \notin Whitespace)

\* The numbered markers of the text: <<a, i>> where a digit run starts at a,
\* a '.' or ')' stands at i right after it, and whitespace follows.
Markers(text) ==
    {m \in (1..Len(text)) \X (1..Len(text)) :
        /\ m[1] < m[2]
        /\ \A k \in m[1]..(m[2] - 1) : text[k] \in Digits
        /\ m[1] = 1 \/ text[m[1] - 1] \notin Digits
        /\ text[m[2]] \in {".", ")"}
        /\ m[2] < Len(text)
        /\ text[m[2] + 1] \in Whitespace}

\* The marker is the first thing on its line (blanks may stand before it).
AtLineStart(text, m) ==
    \A j \in 1..(m[1] - 1) :
        (\A k \in j..(m[1] - 1) : text[k] # "\n") => text[j] \in {" ", "\t"}

\* C13 as claimed: count_steps is max(L, M), L the lines that are not empty
\* after trimming and M the numbered markers at the start of a line;
\* markers in the middle of a line are not counted; empty text gives 0.
C13_MarkersAtLineStartOnly ==
    result.op = "count_steps" =>
        LET L == Len(TrimmedLines(req.steps))
            M == Cardinality({m \in Markers(req.steps) : AtLineStart(req.steps, m)})
        IN  value = IF req.steps = <<>> THEN 0 ELSE SetMax({L, M})

\* C13 amended: count_steps is max(L, M), L the lines that are not empty
\* after trimming and M the numbered markers (digits, then '.' or ')', then
\* whitespace) anywhere in the text, in the middle of a line too; empty text
\* gives 0.
C13_MarkersAnywhere ==
    result.op = "count_steps" =>
        LET L == Len(TrimmedLines(req.steps))
            M == Cardinality(Markers(req.steps))
        IN  value = IF req.steps = <<>> THEN 0 ELSE SetMax({L, M})

C13_Witness ==
    /\ result.op = "count_steps"
    /\ Len(TrimmedLines(req.steps)) = 1
    /\ \E m \in Markers(req.steps) : ~AtLineStart(req.steps, m)
    /\ value = 2

\* C14: every result of predict_time has total_minutes >= 10, and is Quick
\* exactly when total_minutes <= 30, Medium exactly when it is above 30 and
\* at most 60, Long exactly when it is above 60.
C14_MinimumAndCategory ==
    result.op = "predict_time" =>
        /\ value.total_minutes >= 10
        /\ value.category \in {"Quick", "Medium", "Long"}
        /\ value.category = "Quick" <=> value.total_minutes <= 30
        /\ value.category = "Medium" <=>
               (value.total_minutes > 30 /\ value.total_minutes <= 60)
        /\ value.category = "Long" <=> value.total_minutes > 60

\* An explicit time below 10 minutes, and no steps.
C14_Witness ==
    /\ result.op = "predict_time"
    /\ req.step_count = 0
    /\ extract_explicit_time(req.steps) \in 1..9
    /\ value.total_minutes = 10
    /\ value.category = "Quick"

\* C15: with an explicit time above 0 in the text, total_minutes is
\* max(10, explicit) and explicit_time_found is true, whatever the step
\* count and the methods in the text; otherwise explicit_time_found is false
\* and total_minutes is max(10, 5 x step_count + method estimate).
C15_ExplicitTimeWins ==
    result.op = "predict_time" =>
        LET explicit == extract_explicit_time(req.steps)
            estimate == 5 * req.step_count
                        + estimate_from_methods(req.steps).estimated_minutes
        IN  IF explicit > 0
            THEN /\ value.explicit_time_found
                 /\ value.total_minutes = IF explicit > 10 THEN explicit ELSE 10
            ELSE /\ ~value.explicit_time_found
                 /\ value.total_minutes = IF estimate > 10 THEN estimate ELSE 10

\* An explicit time beside a method keyword and a positive step count.
C15_Witness ==
    /\ result.op = "predict_time"
    /\ req.step_count > 0
    /\ estimate_from_methods(req.steps).estimated_minutes > 0
    /\ extract_explicit_time(req.steps) = 120
    /\ value.total_minutes = 120
    /\ value.explicit_time_found

\* C16 as claimed: when the request gives no step count, the count passed to
\* predict_time is the number of lines of the steps that are not blank.
C16_DefaultCountsNonBlankLines ==
    (result.op = "analyze_time" /\ value.status = 200 /\ ~req.data.has_count) =>
        value.step_count = Len(TrimmedLines(req.data.steps))

\* C17: detect_diet_type returns Non-Vegetarian whenever a meat keyword
\* occurs in the joined lowercased ingredients, dairy or egg keywords or
\* not; Vegetarian when no meat keyword occurs and a dairy or egg keyword
\* does; Vegan only when neither occurs; and always one of the three labels.
C17_MeatBeforeDairy ==
    result.op = "detect_diet_type" =>
        LET text == Lower(JoinSpaces(req.ingredients))
            meat == \E i \in 1..Len(MEAT_INGREDIENTS) :
                        IsSubstring(MEAT_INGREDIENTS[i], text)
            dairy == \E i \in 1..Len(dairy_items) : IsSubstring(dairy_items[i], text)
        IN  /\ value \in {"Non-Vegetarian", "Vegetarian", "Vegan"}
            /\ meat => value = "Non-Vegetarian"
            /\ (~meat /\ dairy) => value = "Vegetarian"
            /\ value = "Vegan" => (~meat /\ ~dairy)

\* Meat and dairy in one list.
C17_Witness ==
    /\ result.op = "detect_diet_type"
    /\ AnyIn(MEAT_INGREDIENTS, Lower(JoinSpaces(req.ingredients)))
    /\ AnyIn(dairy_items, Lower(JoinSpaces(req.ingredients)))
    /\ value = "Non-Vegetarian"

\* What the call of thread t returns when it runs alone.
Alone(t) ==
    CASE req[t].op = "estimate_calories" -> estimate_calories(req[t].ingredients)
      [] req[t].op = "analyze_difficulty" ->
             analyze_difficulty(req[t].ingredients, req[t].steps)
      [] req[t].op = "predict_time" -> predict_time(req[t].steps, req[t].step_count)
      [] req[t].op = "detect_diet_type" -> detect_diet_type(req[t].ingredients)
      [] req[t].op = "generate_suggestions" ->
             generate_suggestions(req[t].ingredients, req[t].steps, req[t].tips[1],
                                  req[t].tips[2], req[t].tips[3])

\* C18: however the steps of concurrent calls interleave, every finished
\* call has returned what it returns when run alone, the static tables are
\* as they were, and every caller's list is as it was passed.
C18_CallsDoNotInterfere ==
    /\ tables = StaticTables
    /\ \A t \in Threads : args[t] = req[t].ingredients
    /\ \A t \in Threads :
           pc[t] = "done" =>
               /\ result[t].op = req[t].op
               /\ result[t].value = Alone(t)

\* Two calls of estimate_calories overlap: one has returned after the other
\* had begun its loop and before it has ended it.
C18_Witness ==
    \E t, u \in Threads :
        /\ t # u
        /\ pc[t] = "done"
        /\ result[t].op = "estimate_calories"
        /\ Len(result[t].value.breakdown) > 0
        /\ pc[u] = "loop"
        /\ locals[u].i = 2
        /\ Len(locals[u].breakdown) = 1

\* C19: empty inputs give the defaults.  An empty or all-blank ingredient
\* list gives total_calories 0 and an empty breakdown; the empty steps text
\* gives 0 steps, complexity 0 with no techniques, and, with step count 0,
\* a prediction of 10 minutes, Quick, no explicit time and no methods.
C19_EmptyInputsGiveDefaults ==
    /\ (result.op = "estimate_calories"
        /\ \A i \in 1..Len(req.ingredients) :
               \A j \in 1..Len(req.ingredients[i]) :
                   req.ingredients[i][j] \in Whitespace)
       => (value.total_calories = 0 /\ value.breakdown = <<>>)
    /\ (result.op = "count_steps" /\ req.steps = <<>>) => value = 0
    /\ (result.op = "analyze_complexity" /\ req.steps = <<>>)
       => (value.complexity_score = 0 /\ value.techniques_found = <<>>)
    /\ (result.op = "predict_time" /\ req.steps = <<>> /\ req.step_count = 0)
       => /\ value.total_minutes = 10
          /\ value.category = "Quick"
          /\ ~value.explicit_time_found
          /\ value.methods_detected = <<>>

\* A list of blank lines only, estimated.
C19_Witness ==
    /\ result.op = "estimate_calories"
    /\ Len(req.ingredients) = 2
    /\ \A i \in 1..2 : Strip(req.ingredients[i]) = <<>>
    /\ value.total_calories = 0
    /\ value.breakdown = <<>>

\* The mentions of a unit in the lowercased text: <<a, d>> where a run of
\* digits fills a..d, with no digit before it, and one of the words follows
\* the whitespace, if any, after it.
Mentions(text, words) ==
    LET low == Lower(text)
    IN  {m \in (1..Len(low)) \X (1..Len(low)) :
            /\ m[1] <= m[2]
            /\ \A k \in m[1]..m[2] : low[k] \in Digits
            /\ m[1] = 1 \/ low[m[1] - 1] \notin Digits
            /\ \E e \in m[2]..Len(low) :
                   /\ \A k \in (m[2] + 1)..e : low[k] \in Whitespace
                   /\ e < Len(low)
                   /\ low[e + 1] \notin Whitespace
                   /\ \E w \in words : StartsWithAt(low, e + 1, w)}

RECURSIVE SumOfMentions(_, _)
SumOfMentions(text, mentions) ==
    IF mentions = {} THEN 0
    ELSE LET m == CHOOSE x \in mentions : TRUE
         IN  ParseInt(SubSeq(Lower(text), m[1], m[2]))
             + SumOfMentions(text, mentions \ {m})

\* 60 x hours + minutes + seconds / 60 of the text, in sixtieths of a
\* minute, for the given words of the three units.
MentionedSixtieths(text, hours, minutes, seconds) ==
    60 * (60 * SumOfMentions(text, Mentions(text, hours))
          + SumOfMentions(text, Mentions(text, minutes)))
    + SumOfMentions(text, Mentions(text, seconds))

\* v is an integer nearest to sixtieths / 60.
NearestTo(v, sixtieths) ==
    /\ 2 * (60 * v - sixtieths) <= 60
    /\ 2 * (sixtieths - 60 * v) <= 60

PluralMinutes == {<<"m","i","n","u","t","e","s">>, <<"m","i","n","s">>}

PluralSeconds == {<<"s","e","c","o","n","d","s">>, <<"s","e","c","s">>}

AnyHour == {<<"h","o","u","r">>}

AnyMinute == {<<"m","i","n">>}

AnySecond == {<<"s","e","c">>}

\* C20 as claimed: extract_explicit_time is the integer nearest to
\* 60 x (sum of the '<N> hour(s)' mentions) + (sum of the '<N> minutes' and
\* '<N> mins' mentions) + (sum of the '<N> seconds' and '<N> secs'
\* mentions) / 60, rounded once; 0 without such a mention; never negative.
C20_PluralMentionsOnly ==
    result.op = "extract_explicit_time" =>
        LET total == MentionedSixtieths(req.steps, AnyHour, PluralMinutes,
                                        PluralSeconds)
        IN  /\ value \in Nat
            /\ NearestTo(value, total)
            /\ total = 0 => value = 0

\* C20 amended: the minute and second mentions are a number followed by
\* any word that begins with 'min' or 'sec' (minute, minutes, min, mins,
\* and also 'minced'; second, seconds, sec, secs), as the hour mentions are
\* a number followed by 'hour'; the rest as claimed.
C20_MentionsByWordStart ==
    result.op = "extract_explicit_time" =>
        LET total == MentionedSixtieths(req.steps, AnyHour, AnyMinute, AnySecond)
        IN  /\ value \in Nat
            /\ NearestTo(value, total)
            /\ total = 0 => value = 0

\* Hours and seconds in one text, the seconds not a whole minute.
C20_Witness ==
    /\ result.op = "extract_explicit_time"
    /\ Mentions(req.steps, AnyHour) # {}
    /\ Mentions(req.steps, AnySecond) # {}
    /\ value = 121

\* The places of the method table whose key occurs in the lowercased text.
MethodPlaces(text) ==
    {i \in 1..Len(COOKING_METHOD_TIME) :
        IsSubstring(COOKING_METHOD_TIME[i][1], Lower(text))}

RECURSIVE DurationOfPlaces(_)
DurationOfPlaces(places) ==
    IF places = {} THEN 0
    ELSE LET i == CHOOSE x \in places : TRUE
         IN  COOKING_METHOD_TIME[i][2] + DurationOfPlaces(places \ {i})

\* The keys at the places, by rising place.
RECURSIVE KeysByPlace(_)
KeysByPlace(places) ==
    IF places = {} THEN <<>>
    ELSE <<COOKING_METHOD_TIME[SetMin(places)][1]>>
         \o KeysByPlace(places \ {SetMin(places)})

\* C21: estimate_from_methods returns the sum of the durations of every
\* table key that occurs in the lowercased text, a key inside another
\* matched key too, with the matched keys in table order; predict_time
\* reports the first 3 of those keys at most.
C21_EveryKeyCounts ==
    /\ result.op = "estimate_from_methods" =>
           /\ value.estimated_minutes = DurationOfPlaces(MethodPlaces(req.steps))
           /\ value.methods_found = KeysByPlace(MethodPlaces(req.steps))
    /\ result.op = "predict_time" =>
           LET keys == KeysByPlace(MethodPlaces(req.steps))
           IN  /\ Len(value.methods_detected) = SetMin({3, Len(keys)})
               /\ \A i \in 1..Len(value.methods_detected) :
                      value.methods_detected[i] = keys[i]

\* 'roasting' and 'marinate overnight' in one text: four keys match.
C21_Witness ==
    /\ result.op = "estimate_from_methods"
    /\ Len(value.methods_found) = 4
    /\ value.estimated_minutes = 600

\* s is the decimal numeral of n: digits only, no leading zero, value n.
IsNumeralOf(s, n) ==
    /\ s # <<>>
    /\ \A i \in 1..Len(s) : s[i] \in Digits
    /\ Len(s) > 1 => s[1] # "0"
    /\ ParseInt(s) = n

\* C22: time_display is '<H>h <M>m' when total_minutes >= 60 and '<M>m'
\* when it is below 60, with H = total_minutes div 60 and
\* M = total_minutes mod 60, so 60 x H + M = total_minutes and 0 <= M < 60.
C22_DisplayOfHoursAndMinutes ==
    result.op = "predict_time" =>
        LET shown == value.time_display
            H == value.total_minutes \div 60
            M == value.total_minutes % 60
        IN  /\ 60 * H + M = value.total_minutes
            /\ M \in 0..59
            /\ IF value.total_minutes >= 60
               THEN \E k \in 1..Len(shown) :
                        /\ IsNumeralOf(SubSeq(shown, 1, k - 1), H)
                        /\ shown[k] = "h"
                        /\ k + 2 < Len(shown)
                        /\ shown[k + 1] = " "
                        /\ IsNumeralOf(SubSeq(shown, k + 2, Len(shown) - 1), M)
                        /\ shown[Len(shown)] = "m"
               ELSE /\ IsNumeralOf(SubSeq(shown, 1, Len(shown) - 1), M)
                    /\ shown[Len(shown)] = "m"

\* 125 minutes, shown as 2h 5m.
C22_Witness ==
    /\ result.op = "predict_time"
    /\ value.total_minutes = 125
    /\ value.time_display = <<"2", "h", " ", "5", "m">>

\* The places of the substitution table whose key occurs in the joined
\* lowercased ingredients.
AlternativePlaces(ingredients) ==
    {i \in 1..Len(HEALTHY_ALTERNATIVES) :
        IsSubstring(HEALTHY_ALTERNATIVES[i][1], Lower(JoinSpaces(ingredients)))}

\* The k-th smallest element of a set of numbers.
RECURSIVE KthOf(_, _)
KthOf(S, k) == IF k = 1 THEN SetMin(S) ELSE KthOf(S \ {SetMin(S)}, k - 1)

\* text is 'Replace <key> with <alternative>' of the table row.
IsReplacement(text, row) ==
    LET head == <<"R","e","p","l","a","c","e"," ">>
        mid == <<" ","w","i","t","h"," ">>
    IN  /\ Len(text) = Len(head) + Len(row[1]) + Len(mid) + Len(row[2])
        /\ SubSeq(text, 1, Len(head)) = head
        /\ SubSeq(text, Len(head) + 1, Len(head) + Len(row[1])) = row[1]
        /\ SubSeq(text, Len(head) + Len(row[1]) + 1,
                  Len(head) + Len(row[1]) + Len(mid)) = mid
        /\ SubSeq(text, Len(text) - Len(row[2]) + 1, Len(text)) = row[2]

\* C23: generate_healthy_alternatives returns 'Replace <key> with
\* <alternative>' for the table keys that occur in the joined lowercased
\* ingredients, in table order, the first 3 of them at most, and the empty
\* list when no key occurs.
C23_FirstThreeInTableOrder ==
    result.op = "generate_healthy_alternatives" =>
        LET places == AlternativePlaces(req.ingredients)
        IN  /\ Len(value) = SetMin({3, Cardinality(places)})
            /\ \A k \in 1..Len(value) :
                   IsReplacement(value[k], HEALTHY_ALTERNATIVES[KthOf(places, k)])

\* Four keys occur; three are returned.
C23_Witness ==
    /\ result.op = "generate_healthy_alternatives"
    /\ Cardinality(AlternativePlaces(req.ingredients)) = 4
    /\ Len(value) = 3

\* U: the spices of all table keys that occur in the joined lowercased
\* ingredients.
SpiceUnion(ingredients) ==
    UNION {{SPICE_SUGGESTIONS[i][2][j] : j \in 1..Len(SPICE_SUGGESTIONS[i][2])} :
              i \in {k \in 1..Len(SPICE_SUGGESTIONS) :
                        IsSubstring(SPICE_SUGGESTIONS[k][1],
                                    Lower(JoinSpaces(ingredients)))}}

\* C24: suggest_spices returns min(4, |U|) spices of U, no two the same;
\* when no key occurs it returns the default list salt, black pepper,
\* garlic, herbs.
C24_FourDistinctSpicesOfUnion ==
    result.op = "suggest_spices" =>
        LET U == SpiceUnion(req.ingredients)
        IN  IF U = {}
            THEN value = <<<<"s","a","l","t">>,
                           <<"b","l","a","c","k"," ","p","e","p","p","e","r">>,
                           <<"g","a","r","l","i","c">>,
                           <<"h","e","r","b","s">>>>
            ELSE /\ Len(value) = SetMin({4, Cardinality(U)})
                 /\ \A i \in 1..Len(value) : value[i] \in U
                 /\ \A i, j \in 1..Len(value) : i # j => value[i] # value[j]

\* Chicken and beef: seven spices to choose from, four returned.
C24_Witness ==
    /\ result.op = "suggest_spices"
    /\ Cardinality(SpiceUnion(req.ingredients)) = 7
    /\ Len(value) = 4

\* total_calories / servings is above (below) the limit.
PerServingAbove(total_calories, servings, limit) ==
    IF servings > 0 THEN total_calories > limit * servings
    ELSE total_calories > limit

PerServingBelow(total_calories, servings, limit) ==
    IF servings > 0 THEN total_calories < limit * servings
    ELSE total_calories < limit

\* C25: generate_serving_tips returns exactly 3 tips, the first 3 of: the
\* difficulty tip (Beginner or Advanced only), the calorie tip (hearty above
\* 600 per serving, light below 300, none between), the three generic
\* tips; per serving is total_calories / servings for servings > 0 and
\* total_calories otherwise.
C25_FirstThreeTips ==
    result.op = "generate_serving_tips" =>
        LET first == CASE req.difficulty = "Beginner" ->
                              <<"Great recipe to start your cooking journey!">>
                       [] req.difficulty = "Advanced" ->
                              <<"Take your time and follow each step carefully">>
                       [] OTHER -> <<>>
            second == CASE PerServingAbove(req.total_calories, req.servings, 600) ->
                               <<"This is a hearty meal - consider serving smaller portions">>
                        [] PerServingBelow(req.total_calories, req.servings, 300) ->
                               <<"Light meal - perfect for lunch or as a side dish">>
                        [] OTHER -> <<>>
            all == first \o second
                   \o <<"Taste and adjust seasoning before serving",
                        "Prepare ingredients (mise en place) before cooking",
                        "Let the dish rest for a few minutes before serving">>
        IN  /\ Len(value) = 3
            /\ \A i \in 1..3 : value[i] = all[i]

\* No servings, a Beginner recipe above 600 calories.
C25_Witness ==
    /\ result.op = "generate_serving_tips"
    /\ req.servings = 0
    /\ req.difficulty = "Beginner"
    /\ req.total_calories > 600
    /\ value[2] = "This is a hearty meal - consider serving smaller portions"
    /\ value[3] = "Taste and adjust seasoning before serving"

\* The meal types in their order of priority, each with its words.
MealBuckets ==
    <<<<"Breakfast", breakfast_words>>, <<"Lunch", lunch_words>>,
      <<"Dinner", dinner_words>>>>

\* The buckets of which a word occurs in the joined lowercased ingredients.
BucketsOf(ingredients) ==
    {b \in 1..Len(MealBuckets) :
        \E w \in 1..Len(MealBuckets[b][2]) :
            IsSubstring(MealBuckets[b][2][w], Lower(JoinSpaces(ingredients)))}

\* C26: the meal type of generate_suggestions is the earliest of Breakfast,
\* Lunch, Dinner of which a word occurs as a substring of the joined
\* lowercased ingredients, and 'Any time' when none does.
C26_EarliestMealBucket ==
    result.op = "generate_suggestions" =>
        LET buckets == BucketsOf(req.ingredients)
        IN  IF buckets = {} THEN value.meal_type = "Any time"
            ELSE value.meal_type = MealBuckets[SetMin(buckets)][1]

\* Ingredients with words of all three buckets.
C26_Witness ==
    /\ result.op = "generate_suggestions"
    /\ BucketsOf(req.ingredients) = {1, 2, 3}
    /\ value.meal_type = "Breakfast"

\* C30: the healthy_alternatives of generate_suggestions has 1 to 3 entries:
\* the list of generate_healthy_alternatives when that is not empty, else the
\* one entry 'Recipe looks healthy!', which is no replacement.
C30_AlternativesOrPlaceholder ==
    result.op = "generate_suggestions" =>
        LET places == AlternativePlaces(req.ingredients)
            field == value.healthy_alternatives
        IN  /\ Len(field) \in 1..3
            /\ IF places # {}
               THEN /\ Len(field) = SetMin({3, Cardinality(places)})
                    /\ \A k \in 1..Len(field) :
                           IsReplacement(field[k],
                                         HEALTHY_ALTERNATIVES[KthOf(places, k)])
               ELSE /\ field = <<RecipeLooksHealthy>>
                    /\ \A i \in 1..Len(HEALTHY_ALTERNATIVES) :
                           ~IsReplacement(field[1], HEALTHY_ALTERNATIVES[i])

\* No key of the table occurs: the placeholder is returned.
C30_Witness ==
    /\ result.op = "generate_suggestions"
    /\ req.ingredients # <<>>
    /\ AlternativePlaces(req.ingredients) = {}
    /\ value.healthy_alternatives = <<RecipeLooksHealthy>>

\* C27: for every ingredient list the breakdown of estimate_calories is as
\* long as the ingredient_count of analyze_difficulty, whatever the steps
\* text: both count the lines that are not empty after trimming.
C27_BreakdownMatchesIngredientCount ==
    /\ result.op = "estimate_calories" =>
           /\ Len(value.breakdown) = Len(NonBlankLines(req.ingredients))
           /\ \A steps \in {<<>>} \cup HeadLines :
                  analyze_difficulty(req.ingredients, steps).ingredient_count
                      = Len(value.breakdown)
    /\ result.op = "analyze_difficulty" =>
           /\ value.ingredient_count = Len(NonBlankLines(req.ingredients))
           /\ Len(estimate_calories(req.ingredients).breakdown)
                  = value.ingredient_count

\* A list with a blank line and two ingredients.
C27_Witness ==
    /\ result.op = "estimate_calories"
    /\ Len(req.ingredients) = 3
    /\ \E i \in 1..3 : req.ingredients[i] = <<" ">>
    /\ Len(value.breakdown) = 2
    /\ analyze_difficulty(req.ingredients, <<>>).ingredient_count = 2

\* The technique keywords, complex or moderate, that occur in the text.
TechniqueKeywordsIn(text) ==
    LET text_lower == Lower(text)
        techniques == COMPLEX_TECHNIQUES \o MODERATE_TECHNIQUES
    IN  {techniques[i] : i \in {j \in 1..Len(techniques) :
                                    IsSubstring(techniques[j], text_lower)}}

HasTextAfterQuantity(l) ==
    \E e1 \in 1..Len(l) :
        /\ IsNumberToken(SubSeq(l, 1, e1))
        /\ \E e4 \in (e1 + 1)..(Len(l) - 1) :
               /\ l[e4] \in Whitespace
               /\ l[e4 + 1] # "\n"
               /\ \E e2 \in e1..e4, e3 \in e1..e4 :
                      /\ e2 <= e3
                      /\ e3 < e4
                      /\ AllIn(l, e1 + 1, e2, Whitespace)
                      /\ AllIn(l, e2 + 1, e3, LowerLetters)
                      /\ AllIn(l, e3 + 1, e4, Whitespace)

\* C29: a line that starts with a number and has no whitespace-separated
\* text after the number and unit ('500g', '3', '2cups') gives 100 grams and
\* the whole lowercased trimmed line as the name, as a line without a number
\* does; and the name returned for a line that matches is never empty.
C29_NumberWithoutTextIsDefault ==
    result.op = "extract_quantity" =>
        LET l == Strip(Lower(req.line))
        IN  /\ (/\ l # <<>>
                /\ l[1] \in Digits
                /\ \A i \in 1..Len(l) : l[i] \notin Whitespace)
               => /\ RatEq(value.grams, <<100, 1>>)
                  /\ value.name = l
            /\ HasTextAfterQuantity(l) => value.name # <<>>

\* '500g' with whitespace around it: 100 grams of '500g'.
C29_Witness ==
    /\ result.op = "extract_quantity"
    /\ Strip(Lower(req.line)) = <<"5","0","0","g">>
    /\ req.line # <<"5","0","0","g">>
    /\ RatEq(value.grams, <<100, 1>>)
    /\ value.name = <<"5","0","0","g">>

====
